---- MODULE Spec2Model ----
(***************************************************************************)
(* A model of the CloudStack reconciler of locaweb-cloud-deploy:           *)
(* scripts/provision_infrastructure.py (provision) and                     *)
(* scripts/teardown_infrastructure.py (teardown), run one after the other  *)
(* against one cloud account.  Every provider write call is one step, so   *)
(* that a run can be cut off between any two calls.                        *)
(*                                                                         *)
(* The provider (CloudStack behind cmk) is modelled by what its calls do   *)
(* to the account: ids of deployed VMs are fresh, associate hands out the  *)
(* lowest free address, lists are ordered by id, expunging a VM releases   *)
(* its static NAT and detaches its data volumes, releasing an address      *)
(* drops its firewall rules, a second static NAT on a VM or on an address  *)
(* is rejected.  The source-NAT address of the network is never listed by  *)
(* find_public_ips and never carries a virtualmachineid, so it is left     *)
(* out of the address pool.  Firewall rules stay on an address whose       *)
(* static NAT is disabled (both scripts delete them after disabling it).   *)
(* The list calls behind the find_* readers answer; a write call either    *)
(* takes effect or the run ends there (cmk raises after its retries).      *)
(***************************************************************************)
EXTENDS Integers, Sequences, FiniteSets, TLC

\* ------------------------------------------------------------------ bounds

\* Largest workers_replicas a configuration asks for.
MaxWorkers == 3
\* Service offerings (plans) are 1..MaxPlan.
MaxPlan == 2
\* Disk sizes, in GB, are 1..MaxSizeGB.
MaxSizeGB == 2
\* How many times a VM of one name can be deployed (ids are never reused).
MaxGen == 2
\* How many provision and teardown runs one behaviour holds.
MaxRuns == 3
\* How many networks of the project's name (one a zone) the account can hold.
MaxNets == 2
\* How many calls of one teardown run fail after their retries.
MaxFail == 2
\* SSH public keys are 1..MaxKeys.
MaxKeys == 2

\* ------------------------------------------------------------------ constants

SSH == 22
HTTP == 80
HTTPS == 443

\* ------------------------------------------------------------------ names and ids

WebName == <<"web", 0>>
DbName == <<"db", 0>>
WorkerName(i) == <<"worker", i>>

VMNames == {WebName, DbName} \cup {WorkerName(i) : i \in 1..MaxWorkers}

BlobName == "blob"
DbDataName == "dbdata"
VolNames == {BlobName, DbDataName}

\* The id of the g-th VM deployed under a name; NoId is "no VM".
VmId(name, g) == <<name[1], name[2], g>>
NoId == <<"none", 0, 0>>
NameOf(id) == <<id[1], id[2]>>

\* One public address per VM that can exist.
NumIPs == MaxWorkers + 2
IPs == 1..NumIPs
NoIp == 0

Plans == 1..MaxPlan
Sizes == 1..MaxSizeGB

\* ------------------------------------------------------------------ sequences

SeqToSet(s) == {s[i] : i \in 1..Len(s)}

Min(S) == CHOOSE x \in S : \A y \in S : x <= y

\* The elements of a finite set of integers in ascending order.
RECURSIVE Sorted(_)
Sorted(S) == IF S = {} THEN <<>> ELSE <<Min(S)>> \o Sorted(S \ {Min(S)})

\* ------------------------------------------------------------------ the account

NoKey == 0
AbsentVm(g) == [gen |-> g, st |-> "Absent", off |-> 0]
FreeIp == [assoc |-> FALSE, nat |-> NoId, fw |-> {}]
NoTag == "untagged"
NoVol == [ex |-> FALSE, size |-> 0, att |-> NoId, tag |-> NoTag, pol |-> 0]

EmptyCloud ==
    [net |-> FALSE,
     key |-> FALSE,
     pub |-> NoKey,   \* the public key the keypair holds
     vm  |-> [n \in VMNames |-> AbsentVm(0)],
     ip  |-> [i \in IPs |-> FreeIp],
     vol |-> [v \in VolNames |-> NoVol],
     dup |-> {}]   \* the names that a second resource carries

\* ------------------------------------------------------------------ configurations

\* The validated JSON configuration provision() reads.
Config(we, n, de, wp, kp, dp, bs, ds) ==
    [workers_enabled |-> we, workers_replicas |-> n, db_enabled |-> de,
     web_plan |-> wp, workers_plan |-> kp, db_plan |-> dp,
     blob_disk_size_gb |-> bs, db_disk_size_gb |-> ds]

\* workers_enabled comes with workers_replicas >= 1.
Topologies == {<<FALSE, 0>>} \cup {<<TRUE, n>> : n \in 1..MaxWorkers}

\* Every configuration within the bounds.
ConfigsAll ==
    {Config(t[1], t[2], de, wp, kp, dp, bs, ds) :
        t \in Topologies, de \in BOOLEAN, wp \in Plans, kp \in Plans, dp \in Plans,
        bs \in Sizes, ds \in Sizes}

\* Configurations that differ in the topology only, with fewer workers than
\* the most there can be.
ConfigsTopology == {g \in ConfigsAll :
    /\ g.workers_replicas < MaxWorkers
    /\ g.web_plan = 1 /\ g.workers_plan = 1 /\ g.db_plan = 1
    /\ g.blob_disk_size_gb = 1 /\ g.db_disk_size_gb = 1}

NoConfig == Config(FALSE, 0, FALSE, 0, 0, 0, 0, 0)

DesiredWorkers(cfg) == IF cfg.workers_enabled THEN cfg.workers_replicas ELSE 0

\* ------------------------------------------------------------------ the run

\* The local variables of one provision() or teardown() run.
IdleRun ==
    [pc |-> "idle", cfg |-> NoConfig, k |-> 0,
     web |-> NoId, workers |-> <<>>, db |-> NoId,
     tgt |-> WebName, rmip |-> NoIp,
     ip_map |-> <<>>, unassigned |-> <<>>, need |-> <<>>, new_needed |-> 0,
     fw_rules |-> <<>>, vol |-> NoVol,
     vms |-> <<>>, volumes |-> <<>>, ips |-> <<>>,
     results |-> <<>>, wrote |-> FALSE, err |-> "none", public_key |-> 1]

S(c, r) == [c |-> c, r |-> r]

\* A provider call raised after its retries, or the run was rejected: FATAL, exit 1.
Fatal(c, r, why) == S(c, [r EXCEPT !.pc = "failed", !.err = why])

Put(results, key, val) == (key :> val) @@ results

\* ------------------------------------------------------------------ state reader

NoVm == [id |-> NoId, state |-> "Absent", serviceofferingid |-> 0]

find_network(c) == c.net

find_keypair(c) == c.key

find_vm(c, name) ==
    IF name \in VMNames /\ c.vm[name].st # "Absent"
    THEN [id |-> VmId(name, c.vm[name].gen), state |-> c.vm[name].st,
          serviceofferingid |-> c.vm[name].off]
    ELSE NoVm

find_volume(c, v) == c.vol[v]

find_public_ips(c) == Sorted({i \in IPs : c.ip[i].assoc})

find_firewall_rules(c, i) == Sorted(c.ip[i].fw)

\* A slip: the first address with static NAT, whichever VM it points to.
find_public_ip_any_vm(c, vm_id) ==
    LET hits == {i \in IPs : c.ip[i].assoc /\ c.ip[i].nat # NoId}
    IN  IF hits = {} THEN NoIp ELSE Min(hits)

find_public_ip_for_vm(c, vm_id) ==
    LET hits == {i \in IPs : c.ip[i].assoc /\ c.ip[i].nat = vm_id}
    IN  IF hits = {} THEN NoIp ELSE Min(hits)

\* The address and the NIC address the provider reports for an id.
IpAddress(i) == <<"addr", i>>
get_vm_internal_ip(c, vm_id) == <<"nic", vm_id>>

\* ------------------------------------------------------------------ provider calls

NetworkId == <<"network", 1>>
KeypairName == <<"key", 1>>
VolId(v) == <<"volume", v>>
TagProvision == "locaweb-ai-deploy-id"

\* cmk destroy virtualmachine id=... expunge=true: the VM is gone, its static
\* NAT is released and its data volumes are detached.
DestroyVm(c, name) ==
    LET id == VmId(name, c.vm[name].gen)
    IN  [c EXCEPT
           !.vm[name] = AbsentVm(c.vm[name].gen),
           !.ip = [i \in IPs |-> IF c.ip[i].nat = id
                                 THEN [c.ip[i] EXCEPT !.nat = NoId] ELSE c.ip[i]],
           !.vol = [v \in VolNames |-> IF c.vol[v].att = id
                                       THEN [c.vol[v] EXCEPT !.att = NoId]
                                       ELSE c.vol[v]]]

\* cmk disable staticnat ipaddressid=...
DisableStaticNat(c, i) == [c EXCEPT !.ip[i].nat = NoId]

\* cmk delete firewallrule id=... (a rule is named by its address and port)
DeleteFirewallRule(c, i, port) == [c EXCEPT !.ip[i].fw = @ \ {port}]

\* cmk disassociate ipaddress id=...
DisassociateIp(c, i) == [c EXCEPT !.ip[i] = FreeIp]

\* ------------------------------------------------------------------ provision: network, keypair

\* provision(): the network phase.
StepNetwork(c, r) ==
    LET r1 == [r EXCEPT !.pc = "key",
                        !.results = Put(@, "network_id", NetworkId)]
    IN  IF find_network(c)
        THEN S(c, r1)
        ELSE S([c EXCEPT !.net = TRUE], [r1 EXCEPT !.wrote = TRUE])

\* provision(): the SSH key pair phase.
StepKeypair(c, r) ==
    LET r1 == [r EXCEPT !.pc = "vm_web",
                        !.results = Put(@, "keypair_name", KeypairName)]
    IN  IF find_keypair(c)
        THEN S(c, r1)
        ELSE S([c EXCEPT !.key = TRUE, !.pub = r.public_key], [r1 EXCEPT !.wrote = TRUE])

\* ------------------------------------------------------------------ provision: VMs

OfferingFor(cfg, name) ==
    IF name = WebName THEN cfg.web_plan
    ELSE IF name = DbName THEN cfg.db_plan
    ELSE cfg.workers_plan

\* A slip: the loop starts at desired_workers.
ToExcessFromLast(r) == [r EXCEPT !.pc = "excess", !.k = DesiredWorkers(r.cfg)]

\* provision(): "Scale down excess workers" starts at desired_workers + 1.
ToExcess(r) == [r EXCEPT !.pc = "excess", !.k = DesiredWorkers(r.cfg) + 1]

\* provision(): the database VM follows the workers.
ToDb(r) == IF r.cfg.db_enabled THEN [r EXCEPT !.pc = "vm_db"] ELSE ToExcess(r)

\* A slip: the id of a worker goes to the front of worker_vm_ids.
AfterDeployPrepend(r, name, id) ==
    IF name = WebName THEN
        LET r1 == [r EXCEPT !.web = id, !.results = Put(@, "web_vm_id", id)]
        IN  IF ~r1.cfg.workers_enabled THEN ToDb(r1)
            ELSE IF r1.cfg.workers_replicas >= 1
            THEN [r1 EXCEPT !.pc = "vm_worker", !.k = 1]
            ELSE ToDb([r1 EXCEPT !.results = Put(@, "worker_vm_ids", <<>>)])
    ELSE IF name = DbName THEN
        ToExcess([r EXCEPT !.db = id, !.results = Put(@, "db_vm_id", id)])
    ELSE
        LET ws == <<id>> \o r.workers
        IN  IF r.k < r.cfg.workers_replicas
            THEN [r EXCEPT !.workers = ws, !.k = r.k + 1, !.pc = "vm_worker"]
            ELSE ToDb([r EXCEPT !.workers = ws,
                                !.results = Put(@, "worker_vm_ids", ws)])

\* provision(): what the caller of deploy_vm does with the id it returns.
AfterDeploy(r, name, id) ==
    IF name = WebName THEN
        LET r1 == [r EXCEPT !.web = id, !.results = Put(@, "web_vm_id", id)]
        IN  IF ~r1.cfg.workers_enabled THEN ToDb(r1)
            ELSE IF r1.cfg.workers_replicas >= 1
            THEN [r1 EXCEPT !.pc = "vm_worker", !.k = 1]
            ELSE ToDb([r1 EXCEPT !.results = Put(@, "worker_vm_ids", <<>>)])
    ELSE IF name = DbName THEN
        ToExcess([r EXCEPT !.db = id, !.results = Put(@, "db_vm_id", id)])
    ELSE
        LET ws == Append(r.workers, id)
        IN  IF r.k < r.cfg.workers_replicas
            THEN [r EXCEPT !.workers = ws, !.k = r.k + 1, !.pc = "vm_worker"]
            ELSE ToDb([r EXCEPT !.workers = ws,
                                !.results = Put(@, "worker_vm_ids", ws)])

\* deploy_vm(), up to the first provider write; live says whether the provider
\* accepts a live scale of a running VM.
deploy_vm(c, r, name, live) ==
    LET vm == find_vm(c, name)
        offering_id == OfferingFor(r.cfg, name)
    IN  IF vm.id # NoId THEN
            IF vm.serviceofferingid # 0 /\ vm.serviceofferingid # offering_id THEN
                IF live \/ vm.state = "Stopped"
                THEN S([c EXCEPT !.vm[name].off = offering_id],
                       AfterDeploy([r EXCEPT !.wrote = TRUE], name, vm.id))
                ELSE S(c, [r EXCEPT !.pc = "scale_stop", !.tgt = name])
            ELSE S(c, AfterDeploy(r, name, vm.id))
        ELSE IF c.vm[name].gen >= MaxGen
        THEN Fatal(c, r, "provider")
        ELSE S([c EXCEPT !.vm[name] = [gen |-> c.vm[name].gen + 1,
                                       st |-> "Running", off |-> offering_id]],
               AfterDeploy([r EXCEPT !.wrote = TRUE], name,
                           VmId(name, c.vm[name].gen + 1)))

\* scale_vm(), the fallback: stop, then wait for Stopped.
StepScaleStop(c, r) ==
    S([c EXCEPT !.vm[r.tgt].st = "Stopped"],
      [r EXCEPT !.pc = "scale_offline", !.wrote = TRUE])

\* scale_vm(), the fallback: scale while stopped.
StepScaleOffline(c, r) ==
    S([c EXCEPT !.vm[r.tgt].off = OfferingFor(r.cfg, r.tgt)],
      [r EXCEPT !.pc = "scale_start", !.wrote = TRUE])

\* scale_vm(), the fallback: start; deploy_vm then returns the id.
StepScaleStart(c, r) ==
    S([c EXCEPT !.vm[r.tgt].st = "Running"],
      AfterDeploy([r EXCEPT !.wrote = TRUE], r.tgt, VmId(r.tgt, c.vm[r.tgt].gen)))

\* ------------------------------------------------------------------ provision: excess workers

\* A slip: remove_vm_and_ip() destroys the VM before it looks for its address.
StepExcessDestroyFirst(c, r) ==
    LET name == WorkerName(r.k)
        vm == find_vm(c, name)
    IN  IF vm.id = NoId THEN S(c, [r EXCEPT !.pc = "ipscan"])
        ELSE S(DestroyVm(c, name), [r EXCEPT !.k = r.k + 1, !.wrote = TRUE])

\* provision(): one turn of the excess-worker loop, up to remove_vm_and_ip()'s
\* first write.
StepExcess(c, r) ==
    LET name == WorkerName(r.k)
        vm == find_vm(c, name)
        ip == find_public_ip_for_vm(c, vm.id)
    IN  IF vm.id = NoId THEN S(c, [r EXCEPT !.pc = "ipscan"])
        ELSE IF ip # NoIp
        THEN S(DisableStaticNat(c, ip),
               [r EXCEPT !.pc = "rm_fw", !.rmip = ip, !.wrote = TRUE])
        ELSE S(DestroyVm(c, name), [r EXCEPT !.k = r.k + 1, !.wrote = TRUE])

\* remove_vm_and_ip(): delete the address's firewall rules, then release it.
StepRemoveRules(c, r) ==
    LET rules == find_firewall_rules(c, r.rmip)
    IN  IF rules # <<>>
        THEN S(DeleteFirewallRule(c, r.rmip, Head(rules)), [r EXCEPT !.wrote = TRUE])
        ELSE S(DisassociateIp(c, r.rmip), [r EXCEPT !.pc = "rm_destroy", !.wrote = TRUE])

\* remove_vm_and_ip(): destroy the VM; the loop goes on with the next index.
StepRemoveDestroy(c, r) ==
    S(DestroyVm(c, WorkerName(r.k)),
      [r EXCEPT !.pc = "excess", !.k = r.k + 1, !.rmip = NoIp, !.wrote = TRUE])

\* ------------------------------------------------------------------ provision: public IPs

\* provision(): the ordered list of VMs needing IPs.
vm_assignments(r) ==
    <<r.web>> \o (IF r.cfg.workers_enabled THEN r.workers ELSE <<>>)
              \o (IF r.cfg.db_enabled THEN <<r.db>> ELSE <<>>)

\* The entries of a sequence that satisfy Keep, in order.
SelectIn(seq, Keep(_)) == SelectSeq(seq, Keep)

\* provision(): "Build results from ip_map" and the list of firewall rules.
IpResults(c, r) ==
    LET web_ip == r.ip_map[r.web]
        worker_ips == [i \in 1..Len(r.workers) |-> r.ip_map[r.workers[i]]]
        res1 == Put(Put(r.results, "web_ip", IpAddress(web_ip)), "web_ip_id", web_ip)
        res2 == IF r.cfg.workers_enabled
                THEN Put(res1, "worker_ips",
                         [i \in 1..Len(worker_ips) |-> IpAddress(worker_ips[i])])
                ELSE res1
        res3 == IF r.cfg.db_enabled
                THEN Put(Put(res2, "db_ip", IpAddress(r.ip_map[r.db])),
                         "db_ip_id", r.ip_map[r.db])
                ELSE res2
        rules == <<<<web_ip, SSH>>, <<web_ip, HTTP>>, <<web_ip, HTTPS>>>>
                 \o (IF r.cfg.workers_enabled
                     THEN [i \in 1..Len(worker_ips) |-> <<worker_ips[i], SSH>>]
                     ELSE <<>>)
                 \o (IF r.cfg.db_enabled THEN <<<<r.ip_map[r.db], SSH>>>> ELSE <<>>)
    IN  S(c, [r EXCEPT !.results = res3, !.fw_rules = rules, !.pc = "fw", !.k = 1])

\* A slip: the existing static NAT assignments are not looked up, every VM is
\* taken to need an address.
StepIpScanBlind(c, r) ==
    LET vms == vm_assignments(r)
        unassigned == find_public_ips(c)
        new_needed == Len(vms) - Len(unassigned)
        r1 == [r EXCEPT !.ip_map = <<>>, !.unassigned = unassigned, !.need = vms]
    IN  IF new_needed > 0
        THEN S(c, [r1 EXCEPT !.pc = "assoc", !.new_needed = new_needed])
        ELSE S(c, [r1 EXCEPT !.pc = "nat", !.k = 1])

\* provision(): read the existing static NAT assignments, the unassigned
\* addresses and how many more are needed.
StepIpScan(c, r) ==
    LET vms == vm_assignments(r)
        Has(id) == find_public_ip_for_vm(c, id) # NoIp
        Lacks(id) == ~Has(id)
        mapped == {vms[i] : i \in {j \in 1..Len(vms) : Has(vms[j])}}
        ip_map == [id \in mapped |-> find_public_ip_for_vm(c, id)]
        assigned_ip_ids == {ip_map[id] : id \in mapped}
        Free(i) == i \notin assigned_ip_ids
        unassigned == SelectIn(find_public_ips(c), Free)
        vms_needing_ips == SelectIn(vms, Lacks)
        new_needed == Len(vms_needing_ips) - Len(unassigned)
        r1 == [r EXCEPT !.ip_map = ip_map, !.unassigned = unassigned,
                        !.need = vms_needing_ips]
    IN  IF new_needed > 0
        THEN S(c, [r1 EXCEPT !.pc = "assoc", !.new_needed = new_needed])
        ELSE IF vms_needing_ips # <<>>
        THEN S(c, [r1 EXCEPT !.pc = "nat", !.k = 1])
        ELSE IpResults(c, r1)

\* provision(): one cmk associate ipaddress; the provider hands out the lowest
\* free address, or fails when it has none.
StepAssociate(c, r) ==
    LET free == {i \in IPs : ~c.ip[i].assoc}
        ip == Min(free)
    IN  IF free = {} \/ ~c.net THEN Fatal(c, r, "provider")
        ELSE S([c EXCEPT !.ip[ip].assoc = TRUE],
               [r EXCEPT !.unassigned = Append(@, ip),
                         !.new_needed = @ - 1,
                         !.wrote = TRUE,
                         !.pc = IF r.new_needed = 1 THEN "nat" ELSE "assoc",
                         !.k = 1])

\* The provider rejects static NAT on an address that has it already, and for a
\* VM that has it already.
NatAccepted(c, ip, vm_id) ==
    /\ c.ip[ip].assoc
    /\ c.ip[ip].nat = NoId
    /\ \A i \in IPs : c.ip[i].nat # vm_id
    /\ c.vm[NameOf(vm_id)].st # "Absent"

\* A slip: the address is entered in ip_map and enable staticnat is not issued.
StepEnableNatSkipped(c, r) ==
    LET vm_id == r.need[r.k]
        ip_obj == r.unassigned[r.k]
        r1 == [r EXCEPT !.ip_map = (vm_id :> ip_obj) @@ @, !.k = r.k + 1]
    IN  IF r.k = Len(r.need) THEN IpResults(c, r1) ELSE S(c, r1)

\* provision(): assign the next unassigned address and enable static NAT on it.
StepEnableNat(c, r) ==
    LET vm_id == r.need[r.k]
        ip_obj == r.unassigned[r.k]
        r1 == [r EXCEPT !.ip_map = (vm_id :> ip_obj) @@ @, !.k = r.k + 1]
    IN  IF ~NatAccepted(c, ip_obj, vm_id) THEN Fatal(c, r1, "provider")
        ELSE LET c1 == [c EXCEPT !.ip[ip_obj].nat = vm_id]
                 r2 == [r1 EXCEPT !.wrote = TRUE]
             IN  IF r.k = Len(r.need) THEN IpResults(c1, r2) ELSE S(c1, r2)

\* ------------------------------------------------------------------ provision: firewall

\* provision(): one entry of fw_rules: create the rule unless it is listed.
StepFirewall(c, r) ==
    LET ip_id == r.fw_rules[r.k][1]
        start == r.fw_rules[r.k][2]
        already == start \in SeqToSet(find_firewall_rules(c, ip_id))
        r1 == IF r.k = Len(r.fw_rules)
              THEN [r EXCEPT !.pc = "disk", !.k = 1]
              ELSE [r EXCEPT !.k = r.k + 1]
    IN  IF already THEN S(c, r1)
        ELSE S([c EXCEPT !.ip[ip_id].fw = @ \cup {start}], [r1 EXCEPT !.wrote = TRUE])

\* ------------------------------------------------------------------ provision: data disks

\* provision(): the blob disk on web, then the database disk on db if enabled.
Disks(cfg) == IF cfg.db_enabled THEN <<BlobName, DbDataName>> ELSE <<BlobName>>

DiskSize(cfg, v) == IF v = BlobName THEN cfg.blob_disk_size_gb ELSE cfg.db_disk_size_gb

\* A slip: every disk goes to the web VM.
DiskVmWeb(r, v) == r.web

\* provision(): create_disk is called with web_vm_id for the blob disk and
\* with db_vm_id for the database disk.
DiskVm(r, v) == IF v = BlobName THEN r.web ELSE r.db

DiskKey(v) == IF v = BlobName THEN "blob_volume_id" ELSE "db_volume_id"

\* provision(): create_disk returned vol_id; on to the next disk or the policies.
DiskDone(r) ==
    LET v == Disks(r.cfg)[r.k]
        r1 == [r EXCEPT !.results = Put(@, DiskKey(v), VolId(v))]
    IN  IF r.k = Len(Disks(r.cfg))
        THEN [r1 EXCEPT !.pc = "snap", !.k = 1]
        ELSE [r1 EXCEPT !.pc = "disk", !.k = r.k + 1]

\* resize_volume() that never calls resize.
resize_volume_never(c, v, vol, desired_gb) == c

\* resize_volume(): grow, reject a shrink, or leave the volume alone.
resize_volume(c, v, vol, desired_gb) ==
    IF desired_gb > vol.size THEN [c EXCEPT !.vol[v].size = desired_gb] ELSE c

ShrinkRequested(vol, desired_gb) == desired_gb < vol.size

\* create_disk() without the refusal to shrink: an existing volume is resized
\* to whatever size is asked for.
create_disk_unchecked(c, r) ==
    LET v == Disks(r.cfg)[r.k]
        size_gb == DiskSize(r.cfg, v)
        vol == find_volume(c, v)
    IN  IF vol.ex THEN
            LET c1 == [c EXCEPT !.vol[v].size = size_gb]
                r1 == [r EXCEPT !.wrote = @ \/ (c1 # c), !.vol = vol]
            IN  IF vol.att = NoId
                THEN S(c1, [r1 EXCEPT !.pc = "disk_attach"])
                ELSE S(c1, DiskDone(r1))
        ELSE S([c EXCEPT !.vol[v] = [ex |-> TRUE, size |-> size_gb, att |-> NoId,
                                     tag |-> NoTag, pol |-> 0]],
               [r EXCEPT !.pc = "disk_tag", !.wrote = TRUE])

\* create_disk(), up to its first write: resize an existing volume, or create it.
create_disk(c, r) ==
    LET v == Disks(r.cfg)[r.k]
        size_gb == DiskSize(r.cfg, v)
        vol == find_volume(c, v)
    IN  IF vol.ex THEN
            IF ShrinkRequested(vol, size_gb) THEN Fatal(c, r, "shrink")
            ELSE LET c1 == resize_volume(c, v, vol, size_gb)
                     r1 == [r EXCEPT !.wrote = @ \/ (c1 # c), !.vol = vol]
                 IN  IF vol.att = NoId
                     THEN S(c1, [r1 EXCEPT !.pc = "disk_attach"])
                     ELSE S(c1, DiskDone(r1))
        ELSE S([c EXCEPT !.vol[v] = [ex |-> TRUE, size |-> size_gb, att |-> NoId,
                                     tag |-> NoTag, pol |-> 0]],
               [r EXCEPT !.pc = "disk_tag", !.wrote = TRUE])

\* create_disk(): cmk create tags on the new volume.
StepDiskTag(c, r) ==
    LET v == Disks(r.cfg)[r.k]
    IN  S([c EXCEPT !.vol[v].tag = TagProvision],
          [r EXCEPT !.pc = "disk_attach", !.wrote = TRUE])

\* create_disk(): cmk attach volume.
StepDiskAttach(c, r) ==
    LET v == Disks(r.cfg)[r.k]
    IN  S([c EXCEPT !.vol[v].att = DiskVm(r, v)],
          DiskDone([r EXCEPT !.wrote = TRUE, !.vol = NoVol]))

\* ------------------------------------------------------------------ provision: snapshot policies

\* create_snapshot_policy() without its look at the policies there are: the
\* policy is created whether or not the volume has one.
create_snapshot_policy_unseen(c, r) ==
    LET v == Disks(r.cfg)[r.k]
        r1 == IF r.k = Len(Disks(r.cfg))
              THEN [r EXCEPT !.pc = "finish"]
              ELSE [r EXCEPT !.k = r.k + 1]
    IN  S([c EXCEPT !.vol[v].pol = @ + 1], [r1 EXCEPT !.wrote = TRUE])

\* create_snapshot_policy() for the k-th data disk.
create_snapshot_policy(c, r) ==
    LET v == Disks(r.cfg)[r.k]
        r1 == IF r.k = Len(Disks(r.cfg))
              THEN [r EXCEPT !.pc = "finish"]
              ELSE [r EXCEPT !.k = r.k + 1]
    IN  IF c.vol[v].pol > 0 THEN S(c, r1)
        ELSE S([c EXCEPT !.vol[v].pol = 1], [r1 EXCEPT !.wrote = TRUE])

\* ------------------------------------------------------------------ provision: output

\* A slip: worker_internal_ips is set whether or not workers are enabled.
StepFinishAllLists(c, r) ==
    LET res1 == Put(r.results, "web_internal_ip", get_vm_internal_ip(c, r.web))
        res2 == Put(res1, "worker_internal_ips",
                    [i \in 1..Len(r.workers) |-> get_vm_internal_ip(c, r.workers[i])])
        res3 == IF r.cfg.db_enabled
                THEN Put(res2, "db_internal_ip", get_vm_internal_ip(c, r.db))
                ELSE res2
    IN  S(c, [IdleRun EXCEPT !.pc = "done", !.cfg = r.cfg, !.results = res3,
                             !.wrote = r.wrote])

\* provision(): read the internal IPs and return results; the locals are gone.
StepFinish(c, r) ==
    LET res1 == Put(r.results, "web_internal_ip", get_vm_internal_ip(c, r.web))
        res2 == IF r.cfg.workers_enabled
                THEN Put(res1, "worker_internal_ips",
                         [i \in 1..Len(r.workers) |-> get_vm_internal_ip(c, r.workers[i])])
                ELSE res1
        res3 == IF r.cfg.db_enabled
                THEN Put(res2, "db_internal_ip", get_vm_internal_ip(c, r.db))
                ELSE res2
    IN  S(c, [IdleRun EXCEPT !.pc = "done", !.cfg = r.cfg, !.results = res3,
                             !.wrote = r.wrote, !.public_key = r.public_key])

\* provision(): the run begins with the names resolved.
BeginProvision(cfg) ==
    [IdleRun EXCEPT !.pc = "net", !.cfg = cfg,
                    !.results = Put(<<>>, "network_name", "network")]

\* One step of provision(), by the place the run is at.
ProvisionStep(c, r, live) ==
    CASE r.pc = "net"           -> StepNetwork(c, r)
      [] r.pc = "key"           -> StepKeypair(c, r)
      [] r.pc = "vm_web"        -> deploy_vm(c, r, WebName, live)
      [] r.pc = "vm_worker"     -> deploy_vm(c, r, WorkerName(r.k), live)
      [] r.pc = "vm_db"         -> deploy_vm(c, r, DbName, live)
      [] r.pc = "scale_stop"    -> StepScaleStop(c, r)
      [] r.pc = "scale_offline" -> StepScaleOffline(c, r)
      [] r.pc = "scale_start"   -> StepScaleStart(c, r)
      [] r.pc = "excess"        -> StepExcess(c, r)
      [] r.pc = "rm_fw"         -> StepRemoveRules(c, r)
      [] r.pc = "rm_destroy"    -> StepRemoveDestroy(c, r)
      [] r.pc = "ipscan"        -> StepIpScan(c, r)
      [] r.pc = "assoc"         -> StepAssociate(c, r)
      [] r.pc = "nat"           -> StepEnableNat(c, r)
      [] r.pc = "fw"            -> StepFirewall(c, r)
      [] r.pc = "disk"          -> create_disk(c, r)
      [] r.pc = "disk_tag"      -> StepDiskTag(c, r)
      [] r.pc = "disk_attach"   -> StepDiskAttach(c, r)
      [] r.pc = "snap"          -> create_snapshot_policy(c, r)
      [] r.pc = "finish"        -> StepFinish(c, r)
      [] OTHER                  -> S(c, r)

ProvisionPcs ==
    {"net", "key", "vm_web", "vm_worker", "vm_db", "scale_stop", "scale_offline",
     "scale_start", "excess", "rm_fw", "rm_destroy", "ipscan", "assoc", "nat", "fw",
     "disk", "disk_tag", "disk_attach", "snap", "finish"}

\* What an uninterrupted provision(cfg) makes of the account c (the provider
\* accepting every live scale).
RECURSIVE RunOn(_, _)
RunOn(c, r) ==
    IF r.pc \in ProvisionPcs
    THEN LET n == ProvisionStep(c, r, TRUE) IN RunOn(n.c, n.r)
    ELSE S(c, r)

provision(c, cfg) == RunOn(c, BeginProvision(cfg))

\* ------------------------------------------------------------------ teardown

TagTeardown == "locaweb-cloud-deploy-id"

\* The order in which the provider lists VMs and volumes.
VmOrder == <<WebName>> \o [i \in 1..MaxWorkers |-> WorkerName(i)] \o <<DbName>>
VolOrder == <<BlobName, DbDataName>>

\* cmk list virtualmachines networkid=...
ListVms(c) ==
    LET Present(n) == c.vm[n].st # "Absent"
        Id(n) == VmId(n, c.vm[n].gen)
        names == SelectSeq(VmOrder, Present)
    IN  [i \in 1..Len(names) |-> Id(names[i])]

\* cmk list volumes type=DATADISK tags[0].key=... tags[0].value=<network name>
ListTaggedVolumes(c, key) ==
    LET Tagged(v) == c.vol[v].ex /\ c.vol[v].tag = key
    IN  SelectSeq(VolOrder, Tagged)

BeginTeardown == [IdleRun EXCEPT !.pc = "td_list"]

\* teardown(): find the matching network and the VMs in it.
StepTdList(c, r) ==
    IF ~c.net THEN S(c, [r EXCEPT !.pc = "td_key"])
    ELSE S(c, [r EXCEPT !.pc = "td_snap", !.k = 1, !.vms = ListVms(c)])

\* teardown() [1/8]: list the tagged volumes; delete the snapshot policies of
\* the k-th.
StepTdPolicies(c, r) ==
    LET volumes == IF r.k = 1 THEN ListTaggedVolumes(c, TagTeardown) ELSE r.volumes
        r1 == [r EXCEPT !.volumes = volumes]
    IN  IF r.k > Len(volumes) THEN S(c, [r1 EXCEPT !.pc = "td_detach", !.k = 1])
        ELSE S([c EXCEPT !.vol[volumes[r.k]].pol = 0],
               [r1 EXCEPT !.k = r.k + 1, !.wrote = c.vol[volumes[r.k]].pol > 0])

\* teardown() [2/8]: detach the k-th tagged volume.
StepTdDetach(c, r) ==
    IF r.k > Len(r.volumes) THEN S(c, [r EXCEPT !.pc = "td_nat", !.k = 1])
    ELSE S([c EXCEPT !.vol[r.volumes[r.k]].att = NoId],
           [r EXCEPT !.pc = "td_delete", !.wrote = TRUE])

\* teardown() [2/8]: delete the k-th tagged volume.
StepTdDelete(c, r) ==
    S([c EXCEPT !.vol[r.volumes[r.k]] = NoVol],
      [r EXCEPT !.pc = "td_detach", !.k = r.k + 1, !.wrote = TRUE])

\* The first place from k on in a list whose entry satisfies P; 0 if none.
NextIn(seq, k, P(_)) ==
    LET js == {j \in k..Len(seq) : P(seq[j])}
    IN  IF js = {} THEN 0 ELSE Min(js)

\* teardown() [3/8]: list the addresses; disable static NAT where it is on.
StepTdNat(c, r) ==
    LET ips == IF r.k = 1 THEN find_public_ips(c) ELSE r.ips
        IsNat(i) == c.ip[i].nat # NoId
        j == NextIn(ips, r.k, IsNat)
        r1 == [r EXCEPT !.ips = ips]
    IN  IF j = 0 THEN S(c, [r1 EXCEPT !.pc = "td_fw", !.k = 1])
        ELSE S(DisableStaticNat(c, ips[j]), [r1 EXCEPT !.k = j + 1, !.wrote = TRUE])

\* teardown() [4/8]: delete the firewall rules of every address.
StepTdFirewall(c, r) ==
    LET HasRules(i) == c.ip[i].fw # {}
        j == NextIn(r.ips, r.k, HasRules)
    IN  IF j = 0 THEN S(c, [r EXCEPT !.pc = "td_ip", !.k = 1])
        ELSE S(DeleteFirewallRule(c, r.ips[j], Head(find_firewall_rules(c, r.ips[j]))),
               [r EXCEPT !.k = j, !.wrote = TRUE])

\* teardown() [5/8]: release every address.
StepTdRelease(c, r) ==
    IF r.k > Len(r.ips) THEN S(c, [r EXCEPT !.pc = "td_vm", !.k = 1])
    ELSE S(DisassociateIp(c, r.ips[r.k]), [r EXCEPT !.k = r.k + 1, !.wrote = TRUE])

\* teardown() [6/8]: destroy every VM.
StepTdDestroy(c, r) ==
    IF r.k > Len(r.vms) THEN S(c, [r EXCEPT !.pc = "td_net"])
    ELSE S(DestroyVm(c, NameOf(r.vms[r.k])), [r EXCEPT !.k = r.k + 1, !.wrote = TRUE])

\* teardown() [7/8]: delete the network.
StepTdNetwork(c, r) ==
    S([c EXCEPT !.net = FALSE], [r EXCEPT !.pc = "td_key", !.wrote = TRUE])

\* teardown() [8/8]: delete_keypair().
delete_keypair(c, r) ==
    IF ~find_keypair(c) THEN S(c, [IdleRun EXCEPT !.pc = "td_done", !.wrote = r.wrote])
    ELSE S([c EXCEPT !.key = FALSE, !.pub = NoKey],
           [IdleRun EXCEPT !.pc = "td_done", !.wrote = TRUE])

\* One step of teardown(), by the place the run is at.
TeardownStep(c, r) ==
    CASE r.pc = "td_list"   -> StepTdList(c, r)
      [] r.pc = "td_snap"   -> StepTdPolicies(c, r)
      [] r.pc = "td_detach" -> StepTdDetach(c, r)
      [] r.pc = "td_delete" -> StepTdDelete(c, r)
      [] r.pc = "td_nat"    -> StepTdNat(c, r)
      [] r.pc = "td_fw"     -> StepTdFirewall(c, r)
      [] r.pc = "td_ip"     -> StepTdRelease(c, r)
      [] r.pc = "td_vm"     -> StepTdDestroy(c, r)
      [] r.pc = "td_net"    -> StepTdNetwork(c, r)
      [] r.pc = "td_key"    -> delete_keypair(c, r)
      [] OTHER              -> S(c, r)

TeardownPcs ==
    {"td_list", "td_snap", "td_detach", "td_delete", "td_nat", "td_fw", "td_ip",
     "td_vm", "td_net", "td_key"}

\* What an uninterrupted teardown makes of the account c.
RECURSIVE TdOn(_, _)
TdOn(c, r) ==
    IF r.pc \in TeardownPcs
    THEN LET n == TeardownStep(c, r) IN TdOn(n.c, n.r)
    ELSE S(c, r)

teardown(c) == TdOn(c, BeginTeardown)

\* ------------------------------------------------------------------ the system

VARIABLES
    cloud,   \* the account: network, keypair, VMs, addresses, volumes
    run,     \* the local variables of the run in progress (or of the last one)
    prev,    \* configuration and output of the successful provision that came
             \* right before this run, if one did
    start,   \* the account as it was when the run began
    origin,  \* where a run that was cut off began, while it is being re-run
    runs     \* how many runs have begun

vars == <<cloud, run, prev, start, origin, runs>>

NoPrev == [ok |-> FALSE, cfg |-> NoConfig, results |-> <<>>]
NoOrigin == [ok |-> FALSE, cfg |-> NoConfig, c |-> EmptyCloud]

Init ==
    /\ cloud = EmptyCloud
    /\ run = IdleRun
    /\ prev = NoPrev
    /\ start = EmptyCloud
    /\ origin = NoOrigin
    /\ runs = 0

Resting == run.pc \in {"idle", "done", "failed", "td_done"}

\* main() calls provision(cfg), for the limit-th time at most.
StartProvision(cfgs, limit) ==
    /\ Resting
    /\ runs < limit
    /\ runs' = runs + 1
    /\ \E cfg \in cfgs :
          /\ run' = BeginProvision(cfg)
          /\ origin' = IF origin.ok /\ origin.cfg = cfg /\ run.pc = "failed"
                       THEN origin ELSE NoOrigin
    /\ prev' = IF run.pc = "done"
               THEN [ok |-> TRUE, cfg |-> run.cfg, results |-> run.results]
               ELSE NoPrev
    /\ start' = cloud
    /\ UNCHANGED cloud

\* The next step of the provision run.
Advance(live) ==
    /\ LET n == ProvisionStep(cloud, run, live)
       IN  cloud' = n.c /\ run' = n.r
    /\ UNCHANGED <<prev, start, origin, runs>>

EnsureNetwork == run.pc = "net" /\ Advance(TRUE)
EnsureKeypair == run.pc = "key" /\ Advance(TRUE)
DeployWeb == run.pc = "vm_web" /\ \E live \in BOOLEAN : Advance(live)
DeployWorker == run.pc = "vm_worker" /\ \E live \in BOOLEAN : Advance(live)
DeployDb == run.pc = "vm_db" /\ \E live \in BOOLEAN : Advance(live)
ScaleStop == run.pc = "scale_stop" /\ Advance(TRUE)
ScaleOffline == run.pc = "scale_offline" /\ Advance(TRUE)
ScaleStart == run.pc = "scale_start" /\ Advance(TRUE)
ExcessWorker == run.pc = "excess" /\ Advance(TRUE)
RemoveRules == run.pc = "rm_fw" /\ Advance(TRUE)
RemoveDestroy == run.pc = "rm_destroy" /\ Advance(TRUE)
IpScan == run.pc = "ipscan" /\ Advance(TRUE)
AssociateIp == run.pc = "assoc" /\ Advance(TRUE)
EnableStaticNat == run.pc = "nat" /\ Advance(TRUE)
Firewall == run.pc = "fw" /\ Advance(TRUE)
CreateDisk == run.pc = "disk" /\ Advance(TRUE)
DiskTag == run.pc = "disk_tag" /\ Advance(TRUE)
DiskAttach == run.pc = "disk_attach" /\ Advance(TRUE)
SnapshotPolicy == run.pc = "snap" /\ Advance(TRUE)
Finish == run.pc = "finish" /\ Advance(TRUE)

\* The steps of a provision run whose plans equal those of the VMs it finds.
ProvisionSteps ==
    \/ EnsureNetwork \/ EnsureKeypair
    \/ DeployWeb \/ DeployWorker \/ DeployDb
    \/ ExcessWorker \/ RemoveRules \/ RemoveDestroy
    \/ IpScan \/ AssociateIp \/ EnableStaticNat
    \/ Firewall
    \/ CreateDisk \/ DiskTag \/ DiskAttach
    \/ SnapshotPolicy
    \/ Finish

\* The steps of scale_vm()'s stop, scale, start fallback.
ScaleSteps == ScaleStop \/ ScaleOffline \/ ScaleStart

\* The process is gone, and its locals with it.
Interrupted == [IdleRun EXCEPT !.pc = "failed", !.err = "interrupted"]

\* The provision run is cut off: killed, or a provider call raised after its
\* retries (FATAL, exit 1).
Interrupt ==
    /\ run.pc \in ProvisionPcs
    /\ run' = Interrupted
    /\ origin' = NoOrigin
    /\ start' = cloud
    /\ prev' = NoPrev
    /\ UNCHANGED <<cloud, runs>>

\* The same, remembering where the run began for the sake of its re-run.
InterruptTracked ==
    /\ run.pc \in ProvisionPcs
    /\ run' = Interrupted
    /\ origin' = IF origin.ok THEN origin
                 ELSE [ok |-> TRUE, cfg |-> run.cfg, c |-> start]
    /\ start' = cloud
    /\ prev' = NoPrev
    /\ UNCHANGED <<cloud, runs>>

\* main() of the teardown script calls teardown(network_name).
StartTeardown(limit) ==
    /\ Resting
    /\ runs < limit
    /\ runs' = runs + 1
    /\ run' = BeginTeardown
    /\ start' = cloud
    /\ prev' = NoPrev
    /\ origin' = NoOrigin
    /\ UNCHANGED cloud

TdAdvance ==
    /\ LET n == TeardownStep(cloud, run)
       IN  cloud' = n.c /\ run' = n.r
    /\ UNCHANGED <<prev, start, origin, runs>>

TdList == run.pc = "td_list" /\ TdAdvance
TdPolicies == run.pc = "td_snap" /\ TdAdvance
TdVolumes == run.pc \in {"td_detach", "td_delete"} /\ TdAdvance
TdNat == run.pc = "td_nat" /\ TdAdvance
TdFirewall == run.pc = "td_fw" /\ TdAdvance
TdRelease == run.pc = "td_ip" /\ TdAdvance
TdDestroy == run.pc = "td_vm" /\ TdAdvance
TdNetwork == run.pc = "td_net" /\ TdAdvance
TdKeypair == run.pc = "td_key" /\ TdAdvance

TeardownSteps ==
    \/ TdList \/ TdPolicies \/ TdVolumes \/ TdNat \/ TdFirewall
    \/ TdRelease \/ TdDestroy \/ TdNetwork \/ TdKeypair

\* The teardown run is cut off.
InterruptTeardown ==
    /\ run.pc \in TeardownPcs
    /\ run' = Interrupted
    /\ start' = cloud
    /\ UNCHANGED <<cloud, prev, origin, runs>>

\* Provision and teardown runs, whole or cut off, over configurations that
\* differ in the topology.
Next ==
    \/ StartProvision(ConfigsTopology, MaxRuns) \/ ProvisionSteps \/ Interrupt
    \/ StartTeardown(MaxRuns) \/ TeardownSteps \/ InterruptTeardown

Spec == Init /\ [][Next]_vars

\* ------------------------------------------------------------------ claims

Exists(c, name) == c.vm[name].st # "Absent"

\* C3. Teardown totality: when teardown(identity) without a zone filter has
\* completed, no network, VM, data volume, keypair, non-source-NAT address or
\* snapshot policy of the identity exists.
C3_TeardownTotality ==
    run.pc = "td_done" =>
        /\ ~cloud.net
        /\ ~cloud.key
        /\ \A n \in VMNames : ~Exists(cloud, n)
        /\ \A i \in IPs : ~cloud.ip[i].assoc
        /\ \A v \in VolNames : ~cloud.vol[v].ex /\ cloud.vol[v].pol = 0

\* C4. Worker contiguity: when a provision with N desired workers has
\* succeeded, worker-1..worker-N exist and no worker-k with k > N exists.
C4_WorkerContiguity ==
    run.pc = "done" =>
        \A k \in 1..MaxWorkers :
            Exists(cloud, WorkerName(k)) <=> k <= DesiredWorkers(run.cfg)

\* C5. No leaked address: when a provision has succeeded, every non-source-NAT
\* address of the network has static NAT to an owned VM.
C5_NoLeakedIp ==
    run.pc = "done" =>
        \A i \in IPs : cloud.ip[i].assoc =>
            /\ cloud.ip[i].nat # NoId
            /\ Exists(cloud, NameOf(cloud.ip[i].nat))

ScaleUp(a, b) ==
    /\ a.workers_enabled
    /\ b.workers_replicas > a.workers_replicas
    /\ b = [a EXCEPT !.workers_replicas = b.workers_replicas]

\* The VM of that id exists and the address ip has static NAT to it.
Wired(c, id, ip) ==
    /\ id # NoId
    /\ Exists(c, NameOf(id))
    /\ VmId(NameOf(id), c.vm[NameOf(id)].gen) = id
    /\ ip \in IPs
    /\ c.ip[ip].assoc
    /\ c.ip[ip].nat = id

IpOfAddress(a) == a[2]

\* The roles of the output res are wired in c as res says.
OutputWired(c, cfg, res) ==
    /\ Wired(c, res["web_vm_id"], res["web_ip_id"])
    /\ cfg.db_enabled => Wired(c, res["db_vm_id"], res["db_ip_id"])
    /\ cfg.workers_enabled =>
          \A k \in 1..cfg.workers_replicas :
              Wired(c, res["worker_vm_ids"][k], IpOfAddress(res["worker_ips"][k]))

\* C8. Scale-up stability: while and after provision(S') runs right after a
\* successful provision(S), S' being S with more workers, web, db and
\* worker-1..N keep the VM id and the static-NAT address provision(S) reported,
\* and the output of provision(S') reports the same ones.
C8_ScaleUpStability ==
    (prev.ok /\ ScaleUp(prev.cfg, run.cfg)) =>
        /\ OutputWired(cloud, prev.cfg, prev.results)
        /\ run.pc = "done" =>
              /\ run.results["web_vm_id"] = prev.results["web_vm_id"]
              /\ run.results["web_ip_id"] = prev.results["web_ip_id"]
              /\ prev.cfg.db_enabled =>
                    /\ run.results["db_vm_id"] = prev.results["db_vm_id"]
                    /\ run.results["db_ip_id"] = prev.results["db_ip_id"]
              /\ \A k \in 1..prev.cfg.workers_replicas :
                    /\ run.results["worker_vm_ids"][k] = prev.results["worker_vm_ids"][k]
                    /\ run.results["worker_ips"][k] = prev.results["worker_ips"][k]

\* A provision with more workers has succeeded right after a successful one.
C8_Witness ==
    /\ run.pc = "done"
    /\ prev.ok
    /\ ScaleUp(prev.cfg, run.cfg)
    /\ prev.cfg.db_enabled

\* Web with one worker, nothing else.
ConfigsOneWorker == {g \in ConfigsTopology :
    g.workers_enabled /\ g.workers_replicas = 1 /\ ~g.db_enabled}

\* The steps a provision run takes when nothing is to be removed and there is
\* no database.
PlainSteps ==
    \/ EnsureNetwork \/ EnsureKeypair
    \/ DeployWeb \/ DeployWorker
    \/ ExcessWorker
    \/ IpScan \/ AssociateIp \/ EnableStaticNat
    \/ Firewall
    \/ CreateDisk \/ DiskTag \/ DiskAttach
    \/ SnapshotPolicy
    \/ Finish

\* Whole provision runs of one configuration, and teardown runs whole or cut
\* off, two runs more than under Spec.
NextFirewall ==
    \/ StartProvision(ConfigsOneWorker, MaxRuns + 2) \/ PlainSteps
    \/ StartTeardown(MaxRuns + 2) \/ TeardownSteps \/ InterruptTeardown

SpecFirewall == Init /\ [][NextFirewall]_vars

\* The addresses the output reports for the workers and the database.
OtherIps(cfg, res) ==
    (IF cfg.workers_enabled
     THEN {IpOfAddress(res["worker_ips"][k]) : k \in 1..Len(res["worker_ips"])}
     ELSE {})
    \cup (IF cfg.db_enabled THEN {res["db_ip_id"]} ELSE {})

\* C7. Firewall minimality: when a provision has succeeded, the ports open on
\* the web VM's address are exactly 22, 80 and 443, and on the address of each
\* worker and of the database exactly 22.
C7_FirewallMinimality ==
    run.pc = "done" =>
        /\ cloud.ip[run.results["web_ip_id"]].fw = {SSH, HTTP, HTTPS}
        /\ \A i \in OtherIps(run.cfg, run.results) : cloud.ip[i].fw = {SSH}

\* Provision runs, whole or cut off, where a run that was cut off is remembered
\* while runs of the same configuration follow it.
NextRerun ==
    \/ StartProvision(ConfigsTopology, MaxRuns) \/ ProvisionSteps \/ InterruptTracked

SpecRerun == Init /\ [][NextRerun]_vars

\* C2. Crash/re-run convergence: when provision(S) was cut off and re-running
\* provision(S) has succeeded, the account is what an uninterrupted
\* provision(S) would have made of the account the first run began with.
C2_RerunConverges ==
    (run.pc = "done" /\ origin.ok) =>
        LET whole == provision(origin.c, origin.cfg)
        IN  whole.r.pc = "done" => cloud = whole.c

\* Configurations with one worker at most, where the plan of the web VM and
\* the sizes of the data disks vary.
ConfigsSizing == {g \in ConfigsAll :
    /\ g.workers_replicas <= 1
    /\ g.workers_plan = 1 /\ g.db_plan = 1
    /\ (~g.db_enabled => g.db_disk_size_gb = 1)}

\* Provision runs, whole or cut off, over configurations whose plans and disk
\* sizes change from run to run.
NextSizing ==
    \/ StartProvision(ConfigsSizing, MaxRuns) \/ ProvisionSteps \/ ScaleSteps
    \/ Interrupt

SpecSizing == Init /\ [][NextSizing]_vars

C10_ShrinkChangesNothing ==
    (run.pc = "failed" /\ run.err = "shrink") => cloud = start

\* Configurations with one worker or with the most there can be, where the
\* plan of the workers varies.
ConfigsPlans == {g \in ConfigsAll :
    /\ g.workers_enabled /\ g.workers_replicas \in {1, MaxWorkers}
    /\ ~g.db_enabled
    /\ g.web_plan = 1 /\ g.db_plan = 1
    /\ g.blob_disk_size_gb = 1 /\ g.db_disk_size_gb = 1}

\* Provision runs, whole or cut off, that add and remove workers and change
\* their plan, one run more than under Spec.
NextPlans ==
    \/ StartProvision(ConfigsPlans, MaxRuns + 1) \/ PlainSteps
    \/ RemoveRules \/ RemoveDestroy \/ ScaleSteps \/ Interrupt

SpecPlans == Init /\ [][NextPlans]_vars

Enabled(cfg, role) ==
    CASE role = "web"    -> TRUE
      [] role = "worker" -> cfg.workers_enabled
      [] role = "db"     -> cfg.db_enabled

\* C9. Plan change: after a successful provision that follows a successful
\* one and changes the plan of a role it has, every VM of the role that
\* existed when the run began and still exists has the offering of the new
\* plan and the id it had.
C9_PlanChange ==
    (run.pc = "done" /\ prev.ok) =>
        \A name \in VMNames :
            ( /\ Enabled(run.cfg, name[1]) /\ Enabled(prev.cfg, name[1])
              /\ OfferingFor(run.cfg, name) # OfferingFor(prev.cfg, name)
              /\ Exists(start, name) /\ Exists(cloud, name) ) =>
                /\ cloud.vm[name].off = OfferingFor(run.cfg, name)
                /\ cloud.vm[name].gen = start.vm[name].gen

C12_MonotonicDisks ==
    [][\A v \in VolNames :
          cloud.vol[v].ex => (cloud'.vol[v].ex /\ cloud'.vol[v].size >= cloud.vol[v].size)
      ]_vars

\* A run was refused a shrink of a blob volume that an earlier run had grown.
C12_Witness ==
    /\ run.pc = "failed" /\ run.err = "shrink"
    /\ cloud.vol[BlobName].size = MaxSizeGB
    /\ run.cfg.blob_disk_size_gb < MaxSizeGB

\* C13. Tagging: when a provision run has succeeded, every existing data
\* volume carries the tag key that create_disk writes.
C13_Tagging ==
    run.pc = "done" =>
        \A v \in VolNames : cloud.vol[v].ex => cloud.vol[v].tag = TagProvision

\* ------------------------------------------------------------------ failed reads

NetworkName == <<"network", 0>>
KeyName == <<"key", 0>>
VolumeName(v) == <<v, 0>>

\* The name the run is about to look up with find_network, find_keypair,
\* find_vm or find_volume, before it creates what it does not find.
Sought(r) ==
    CASE r.pc = "net"       -> NetworkName
      [] r.pc = "key"       -> KeyName
      [] r.pc = "vm_web"    -> WebName
      [] r.pc = "vm_worker" -> WorkerName(r.k)
      [] r.pc = "vm_db"     -> DbName
      [] r.pc = "disk"      -> VolumeName(Disks(r.cfg)[r.k])

\* The account has a resource of that name.
Present(c, name) ==
    CASE name = NetworkName -> c.net
      [] name = KeyName     -> c.key
      [] name \in VMNames   -> c.vm[name].st # "Absent"
      [] OTHER              -> c.vol[name[1]].ex

\* The provider takes a second network or volume of a name; it refuses a
\* second key pair or VM of a name.
NamesShared == {NetworkName} \cup {VolumeName(v) : v \in VolNames}

\* The list call of the finder fails after its retries: cmk_quiet returns None,
\* the finder reports nothing, and the create call is issued for a resource
\* that is there.  Where the provider accepts it, the run goes on with the
\* second resource and is followed no further.
StepFindFails(c, r) ==
    IF Sought(r) \in NamesShared
    THEN S([c EXCEPT !.dup = @ \cup {Sought(r)}],
           [IdleRun EXCEPT !.pc = "lost", !.cfg = r.cfg, !.wrote = TRUE])
    ELSE Fatal(c, r, "exists")

FindFails ==
    /\ run.pc \in {"net", "key", "vm_web", "vm_worker", "vm_db", "disk"}
    /\ Present(cloud, Sought(run))
    /\ LET n == StepFindFails(cloud, run)
       IN  cloud' = n.c /\ run' = n.r
    /\ UNCHANGED <<prev, start, origin, runs>>

\* Provision runs, whole or cut off, in which the list call of a finder may
\* fail.
NextReadFailure ==
    \/ StartProvision(ConfigsTopology, MaxRuns) \/ ProvisionSteps \/ Interrupt
    \/ FindFails

SpecReadFailure == Init /\ [][NextReadFailure]_vars

\* C14. Uniqueness: no name is carried by two resources, and no create call
\* was issued (and refused) for a name whose resource exists.
C14_Uniqueness ==
    /\ cloud.dup = {}
    /\ ~(run.pc = "failed" /\ run.err = "exists")

\* Provision runs that are never cut off, over configurations that differ in
\* the topology; no run follows one that failed.
NextWhole ==
    \/ (run.pc # "failed" /\ StartProvision(ConfigsTopology, MaxRuns))
    \/ ProvisionSteps

SpecWhole == Init /\ [][NextWhole]_vars

\* The VMs the configuration asks for.
DesiredVMs(cfg) ==
    {WebName} \cup {WorkerName(i) : i \in 1..DesiredWorkers(cfg)}
              \cup (IF cfg.db_enabled THEN {DbName} ELSE {})

\* C15. Exact VM set: when a provision run has succeeded, the VMs that exist
\* are web, worker-1..N and, if the database is enabled, db, and no other.
C15_ExactVmSet ==
    run.pc = "done" =>
        \A name \in VMNames : Exists(cloud, name) <=> name \in DesiredVMs(run.cfg)

\* Provision and teardown runs that are never cut off; no run follows one
\* that failed.
NextWholeRuns ==
    \/ (run.pc # "failed" /\ StartProvision(ConfigsTopology, MaxRuns))
    \/ ProvisionSteps
    \/ (run.pc # "failed" /\ StartTeardown(MaxRuns))
    \/ TeardownSteps

SpecWholeRuns == Init /\ [][NextWholeRuns]_vars

\* The non-source-NAT addresses associated with the network.
AssociatedIps(c) == {i \in IPs : c.ip[i].assoc}

\* C16. IP count: when a provision run has succeeded in an account that only
\* whole provision and teardown runs have touched, the network has as many
\* non-source-NAT addresses as the configuration has VMs.
C16_IpCount ==
    run.pc = "done" =>
        Cardinality(AssociatedIps(cloud)) = Cardinality(DesiredVMs(run.cfg))

\* ------------------------------------------------------------------ the cmk helpers

CMK_MAX_RETRIES == 5

\* cmk and cmk_quiet of the provision script, cmk of the teardown script.
Callers == {"cmk", "cmk_quiet", "teardown_cmk"}

\* What one run of the cmk process can end with: exit 0, or a nonzero exit
\* with something on stderr or stdout.
Outcomes ==
    {[rc |-> 0, msg |-> ""]} \cup {[rc |-> 1, msg |-> m] : m \in {"timeout", "http 500"}}

\* A backoff that grows by two seconds per attempt.
BackoffLinear(attempt) == 2 * (attempt + 1)

\* backoff = 2 ** (attempt + 1)
Backoff(attempt) == 2 ^ (attempt + 1)

\* The call begins: attempt 0 of range(CMK_MAX_RETRIES + 1).
BeginCmk(caller) ==
    [pc |-> "cmk_run", caller |-> caller, attempt |-> 0,
     exits |-> <<>>, sleeps |-> <<>>, error_msg |-> "", out |-> <<"pending", "">>]

\* subprocess.run(cmd) has ended with outcome o.
CmkRun(r, o) ==
    LET r1 == [r EXCEPT !.exits = Append(@, o)]
    IN  IF o.rc = 0
        THEN [r1 EXCEPT !.pc = "cmk_end", !.out = <<"result", "">>]
        ELSE LET r2 == [r1 EXCEPT !.error_msg = o.msg]
             IN  IF r.attempt < CMK_MAX_RETRIES
                 THEN [r2 EXCEPT !.pc = "cmk_sleep"]
                 ELSE IF r.caller = "cmk"
                 THEN [r2 EXCEPT !.pc = "cmk_end", !.out = <<"RuntimeError", o.msg>>]
                 ELSE [r2 EXCEPT !.pc = "cmk_end", !.out = <<"None", "">>]

\* time.sleep(backoff), then the next attempt.
CmkSleep(r) ==
    [r EXCEPT !.sleeps = Append(@, Backoff(r.attempt)), !.attempt = @ + 1,
              !.pc = "cmk_run"]

CallCmk ==
    /\ run.pc \in {"idle", "cmk_end"}
    /\ \E caller \in Callers : run' = BeginCmk(caller)
    /\ UNCHANGED <<cloud, prev, start, origin, runs>>

InvokeCmk ==
    /\ run.pc = "cmk_run"
    /\ \E o \in Outcomes : run' = CmkRun(run, o)
    /\ UNCHANGED <<cloud, prev, start, origin, runs>>

SleepCmk ==
    /\ run.pc = "cmk_sleep"
    /\ run' = CmkSleep(run)
    /\ UNCHANGED <<cloud, prev, start, origin, runs>>

\* Calls of the cmk helpers, one after the other, the cmk process ending any
\* way it can.
NextRetry == CallCmk \/ InvokeCmk \/ SleepCmk

SpecRetry == Init /\ [][NextRetry]_vars

\* C17. Retry contract: a call runs cmk at most 6 times, never again after
\* an exit 0, sleeps 2, 4, 8, 16, 32 seconds after failed attempts 1..5, and
\* ends with the result at the first exit 0 or, after 6 failures, with an
\* error carrying the last message (cmk) or with None (cmk_quiet, teardown).
C17_RetryContract ==
    run.pc \in {"cmk_run", "cmk_sleep", "cmk_end"} =>
        LET n == Len(run.exits)
            slept == Len(run.sleeps)
        IN  /\ n <= 6
            /\ \A k \in 1..(n - 1) : run.exits[k].rc # 0
            /\ slept <= 5
            /\ \A k \in 1..slept : run.sleeps[k] = <<2, 4, 8, 16, 32>>[k]
            /\ run.pc = "cmk_run" => slept = n
            /\ run.pc = "cmk_sleep" => (slept = n - 1 /\ run.exits[n].rc # 0 /\ n <= 5)
            /\ run.pc = "cmk_end" =>
                  /\ slept = n - 1
                  /\ IF run.exits[n].rc = 0
                     THEN run.out = <<"result", "">>
                     ELSE /\ n = 6
                          /\ run.out = IF run.caller = "cmk"
                                       THEN <<"RuntimeError", run.exits[n].msg>>
                                       ELSE <<"None", "">>

\* A call whose first four attempts failed has returned the result of the
\* fifth.
C17_Witness ==
    /\ run.pc = "cmk_end"
    /\ Len(run.exits) = 5
    /\ run.out = <<"result", "">>
    /\ run.sleeps = <<2, 4, 8, 16>>

\* ------------------------------------------------------------------ the output of provision

\* C18. Output keys: the output of a successful provision(S) has worker_vm_ids,
\* worker_ips and worker_internal_ips exactly when S.workers_enabled, has
\* db_vm_id, db_ip, db_ip_id, db_internal_ip and db_volume_id exactly when
\* S.db_enabled, and always has network_name, network_id, keypair_name,
\* web_vm_id, web_ip, web_ip_id, web_internal_ip and blob_volume_id.
C18_OutputKeys ==
    run.pc = "done" =>
        LET keys == DOMAIN run.results
        IN  /\ \A k \in {"worker_vm_ids", "worker_ips", "worker_internal_ips"} :
                  k \in keys <=> run.cfg.workers_enabled
            /\ \A k \in {"db_vm_id", "db_ip", "db_ip_id", "db_internal_ip", "db_volume_id"} :
                  k \in keys <=> run.cfg.db_enabled
            /\ {"network_name", "network_id", "keypair_name", "web_vm_id", "web_ip",
                "web_ip_id", "web_internal_ip", "blob_volume_id"} \subseteq keys

\* A provision with db and without workers has succeeded after a successful
\* one with workers and without db.
C18_Witness ==
    /\ run.pc = "done"
    /\ ~run.cfg.workers_enabled /\ run.cfg.db_enabled
    /\ prev.ok
    /\ prev.cfg.workers_enabled /\ ~prev.cfg.db_enabled

\* C19. Output alignment: in the output of a successful provision with workers
\* enabled, worker_vm_ids, worker_ips and worker_internal_ips have length
\* workers_replicas, and their i-th entries are the id, the static-NAT public
\* address and the internal address of the VM named worker-i.
C19_OutputAlignment ==
    (run.pc = "done" /\ run.cfg.workers_enabled) =>
        LET res == run.results
            n == run.cfg.workers_replicas
        IN  /\ Len(res["worker_vm_ids"]) = n
            /\ Len(res["worker_ips"]) = n
            /\ Len(res["worker_internal_ips"]) = n
            /\ \A i \in 1..n :
                  LET vm == find_vm(cloud, WorkerName(i))
                      ip == find_public_ip_for_vm(cloud, vm.id)
                  IN  /\ vm # NoVm
                      /\ res["worker_vm_ids"][i] = vm.id
                      /\ ip # NoIp
                      /\ res["worker_ips"][i] = IpAddress(ip)
                      /\ res["worker_internal_ips"][i] = get_vm_internal_ip(cloud, vm.id)

\* A provision with two workers has succeeded, worker-1 kept from before and
\* worker-2 deployed by this run.
C19_Witness ==
    /\ run.pc = "done"
    /\ run.cfg.workers_enabled /\ run.cfg.workers_replicas = 2
    /\ find_vm(start, WorkerName(1)) # NoVm
    /\ find_vm(start, WorkerName(2)) = NoVm

\* C20. Output wiring matches the account: when provision returns, the public
\* address reported for each role of the output (web_ip_id, db_ip_id, each of
\* worker_ips) is an address of the network with static NAT enabled towards the
\* VM id reported for that role.
C20_OutputWiring ==
    run.pc = "done" =>
        /\ find_network(cloud)
        /\ OutputWired(cloud, run.cfg, run.results)

\* A provision with workers and db has succeeded on an account where the web
\* VM had its address already and the db VM had none.
C20_Witness ==
    /\ run.pc = "done"
    /\ run.cfg.workers_enabled /\ run.cfg.db_enabled
    /\ find_vm(start, WebName) # NoVm
    /\ find_public_ip_for_vm(start, find_vm(start, WebName).id) # NoIp
    /\ find_vm(start, DbName) = NoVm

\* ------------------------------------------------------------------ VM states

\* C21. VMs end up Running: after a successful provision(S) every VM of S (web,
\* worker-1..N, db when enabled) is in state Running, also when the run scaled
\* a VM offline and when an earlier run ended after the stop or after the
\* scale-while-stopped of an offline scale, before the start.
C21_VmsRunning ==
    run.pc = "done" =>
        \A name \in DesiredVMs(run.cfg) : cloud.vm[name].st = "Running"

\* ------------------------------------------------------------------ teardown, call by call

\* The teardown script with every cmk call as one step: a call that fails
\* after its retries returns None and the script goes on.  The account holds
\* up to MaxNets networks of the project's name, network n in zone n, each
\* with the VMs, addresses, rules, volumes and policies of the roles it has.

Nets == 1..MaxNets
NoZone == 0
UnknownZone == MaxNets + 1
RoleOrder == <<"web", "db">>
TdRoles == {"web", "db"}

\* What a successful provision leaves in one zone: nothing, web, or web and db.
RolesOf(shape) ==
    IF shape = "none" THEN {} ELSE IF shape = "web" THEN {"web"} ELSE TdRoles

RulesOf(roles) ==
    {<<role, port>> : role \in roles, port \in {SSH, HTTP, HTTPS}}
        \ {<<"db", HTTP>>, <<"db", HTTPS>>}

TdAccount(shapes, key, tag) ==
    [net   |-> {n \in Nets : shapes[n] # "none"},
     key   |-> key,
     tag   |-> tag,
     vm    |-> [n \in Nets |-> RolesOf(shapes[n])],
     assoc |-> [n \in Nets |-> RolesOf(shapes[n])],
     nat   |-> [n \in Nets |-> RolesOf(shapes[n])],
     fw    |-> [n \in Nets |-> RulesOf(RolesOf(shapes[n]))],
     vol   |-> [n \in Nets |-> RolesOf(shapes[n])],
     att   |-> [n \in Nets |-> RolesOf(shapes[n])],
     pol   |-> [n \in Nets |-> RolesOf(shapes[n])]]

\* The accounts teardown is run on; the data volumes carry the key provision
\* writes or the key teardown reads.
TdAccounts ==
    {TdAccount(shapes, key, tag) :
        shapes \in [Nets -> {"none", "web", "webdb"}],
        key \in BOOLEAN, tag \in {TagProvision, TagTeardown}}

\* The locals of main() and teardown(), the calls issued so far and the exit
\* code of the process.
TdIdle ==
    [pc |-> "idle", zone |-> NoZone, zone_id |-> NoZone,
     matching_networks |-> <<>>, n |-> 0,
     vms |-> <<>>, volumes |-> <<>>, ips |-> <<>>, rules |-> <<>>,
     k |-> 0, j |-> 0, calls |-> <<>>, fails |-> 0, exit |-> 0]

\* cmk(...): the call is issued; it answers, or it fails after its retries.
\* A call is written down with its verb, the network of the loop turn it is
\* issued in (0 outside the loop), the role of the resource it names and the
\* port of the rule or the zone of the volume it names.
Called(r, verb, n, role, at, ok) ==
    [r EXCEPT !.calls = Append(@, [verb |-> verb, net |-> n, role |-> role, at |-> at]),
              !.fails = IF ok THEN @ ELSE @ + 1]

\* main(): with --zone the zone is resolved first.
BeginCalls(zone) ==
    [TdIdle EXCEPT !.zone = zone,
                   !.pc = IF zone = NoZone THEN "t_networks" ELSE "t_zone"]

\* The process ends.
Exit(r, code) == [r EXCEPT !.pc = "t_exit", !.exit = code]

\* A slip: a zone that is not listed gives no zone id, and teardown goes on
\* without a zone filter.
resolve_zone_none(c, r, ok) ==
    LET r1 == Called(r, "list zones", 0, "", 0, ok)
    IN  IF ok /\ r.zone \in Nets
        THEN S(c, [r1 EXCEPT !.zone_id = r.zone, !.pc = "t_networks"])
        ELSE S(c, [r1 EXCEPT !.pc = "t_networks"])

\* resolve_zone(): raises when the list names no such zone, and main() does
\* not catch it.
resolve_zone(c, r, ok) ==
    LET r1 == Called(r, "list zones", 0, "", 0, ok)
    IN  IF ok /\ r.zone \in Nets
        THEN S(c, [r1 EXCEPT !.zone_id = r.zone, !.pc = "t_networks"])
        ELSE S(c, Exit(r1, 1))

\* teardown(): find the matching networks.
CallListNetworks(c, r, ok) ==
    LET Matches(n) == n \in c.net /\ (r.zone_id = NoZone \/ n = r.zone_id)
        matching_networks ==
            IF ok THEN SelectSeq([n \in Nets |-> n], Matches) ELSE <<>>
        r1 == [Called(r, "list networks", 0, "", 0, ok)
                   EXCEPT !.matching_networks = matching_networks]
    IN  IF matching_networks = <<>>
        THEN S(c, [r1 EXCEPT !.pc = "t_keyfind"])
        ELSE S(c, [r1 EXCEPT !.pc = "t_vms", !.n = 1])

\* teardown(): the VMs of the network.
CallListVms(c, r, ok) ==
    LET net_id == r.matching_networks[r.n]
        InNet(role) == role \in c.vm[net_id]
        vms == IF ok THEN SelectSeq(RoleOrder, InNet) ELSE <<>>
    IN  S(c, [Called(r, "list virtualmachines", net_id, "", 0, ok)
                  EXCEPT !.vms = vms, !.pc = "t_volumes"])

\* teardown() [1/8]: the data volumes tagged with the network's name, in the
\* zone when one is given.
CallListVolumes(c, r, ok) ==
    LET net_id == r.matching_networks[r.n]
        all == [i \in 1..(2 * MaxNets) |->
                    <<((i - 1) \div 2) + 1, RoleOrder[((i - 1) % 2) + 1]>>]
        Listed(v) == /\ v[2] \in c.vol[v[1]]
                     /\ c.tag = TagTeardown
                     /\ (r.zone_id = NoZone \/ v[1] = r.zone_id)
        volumes == IF ok THEN SelectSeq(all, Listed) ELSE <<>>
    IN  S(c, [Called(r, "list volumes", net_id, "", 0, ok)
                  EXCEPT !.volumes = volumes, !.pc = "t_policies", !.k = 1])

\* A slip: the addresses are released before their rules are deleted.
NextStageSwapped(pc) ==
    CASE pc = "t_policies" -> "t_detach"
      [] pc = "t_detach"   -> "t_ips"
      [] pc = "t_nat"      -> "t_release"
      [] pc = "t_release"  -> "t_rules"
      [] pc = "t_rules"    -> "t_destroy"
      [] pc = "t_destroy"  -> "t_netdel"

\* The stage that follows a stage of teardown()'s loop body.
NextStage(pc) ==
    CASE pc = "t_policies" -> "t_detach"
      [] pc = "t_detach"   -> "t_ips"
      [] pc = "t_nat"      -> "t_rules"
      [] pc = "t_rules"    -> "t_release"
      [] pc = "t_release"  -> "t_destroy"
      [] pc = "t_destroy"  -> "t_netdel"

\* The loop of a stage is over.
StageDone(c, r) == S(c, [r EXCEPT !.pc = NextStage(r.pc), !.k = 1])

\* teardown() [1/8]: the snapshot policies of the k-th volume.
CallListPolicies(c, r, ok) ==
    IF r.k > Len(r.volumes) THEN StageDone(c, r)
    ELSE LET v == r.volumes[r.k]
             r1 == Called(r, "list snapshotpolicies", r.matching_networks[r.n], v[2], v[1], ok)
         IN  IF ok /\ v[2] \in c.pol[v[1]]
             THEN S(c, [r1 EXCEPT !.pc = "t_poldel"])
             ELSE S(c, [r1 EXCEPT !.k = r.k + 1])

\* teardown() [1/8]: delete the policy that was listed.
CallDeletePolicy(c, r, ok) ==
    LET v == r.volumes[r.k]
        r1 == [Called(r, "delete snapshotpolicies", r.matching_networks[r.n], v[2], v[1], ok)
                   EXCEPT !.pc = "t_policies", !.k = r.k + 1]
    IN  IF ok THEN S([c EXCEPT !.pol[v[1]] = @ \ {v[2]}], r1) ELSE S(c, r1)

\* A slip: the volume is deleted without being detached first.
CallDetachSkipped(c, r, ok) ==
    IF r.k > Len(r.volumes) THEN StageDone(c, r)
    ELSE S(c, [r EXCEPT !.pc = "t_voldel"])

\* teardown() [2/8]: detach the k-th volume.
CallDetach(c, r, ok) ==
    IF r.k > Len(r.volumes) THEN StageDone(c, r)
    ELSE LET v == r.volumes[r.k]
             r1 == [Called(r, "detach volume", r.matching_networks[r.n], v[2], v[1], ok) EXCEPT !.pc = "t_voldel"]
         IN  IF ok THEN S([c EXCEPT !.att[v[1]] = @ \ {v[2]}], r1) ELSE S(c, r1)

\* teardown() [2/8]: delete the k-th volume; the provider refuses while it is
\* attached.
CallDeleteVolume(c, r, ok) ==
    LET v == r.volumes[r.k]
        r1 == [Called(r, "delete volume", r.matching_networks[r.n], v[2], v[1], ok)
                   EXCEPT !.pc = "t_detach", !.k = r.k + 1]
    IN  IF ok /\ v[2] \notin c.att[v[1]]
        THEN S([c EXCEPT !.vol[v[1]] = @ \ {v[2]}, !.pol[v[1]] = @ \ {v[2]}], r1)
        ELSE S(c, r1)

\* teardown() [3/8]: the non-source-NAT addresses of the network, each with
\* its isstaticnat as listed.
CallListIps(c, r, ok) ==
    LET net_id == r.matching_networks[r.n]
        InNet(role) == role \in c.assoc[net_id]
        roles == IF ok THEN SelectSeq(RoleOrder, InNet) ELSE <<>>
        ips == [i \in 1..Len(roles) |->
                   [id |-> roles[i], isstaticnat |-> roles[i] \in c.nat[net_id]]]
    IN  S(c, [Called(r, "list publicipaddresses", net_id, "", 0, ok)
                  EXCEPT !.ips = ips, !.pc = "t_nat", !.k = 1])

\* teardown() [3/8]: disable static NAT on the next address listed with it.
CallDisableNat(c, r, ok) ==
    LET net_id == r.matching_networks[r.n]
        js == {i \in r.k..Len(r.ips) : r.ips[i].isstaticnat}
    IN  IF js = {} THEN StageDone(c, r)
        ELSE LET i == Min(js)
                 ip == r.ips[i].id
                 r1 == [Called(r, "disable staticnat", net_id, ip, 0, ok) EXCEPT !.k = i + 1]
             IN  IF ok THEN S([c EXCEPT !.nat[net_id] = @ \ {ip}], r1) ELSE S(c, r1)

\* teardown() [4/8]: the firewall rules of the k-th address.
CallListRules(c, r, ok) ==
    IF r.k > Len(r.ips) THEN StageDone(c, r)
    ELSE LET net_id == r.matching_networks[r.n]
             ip == r.ips[r.k].id
             rules == IF ok THEN Sorted({port \in {SSH, HTTP, HTTPS} :
                                            <<ip, port>> \in c.fw[net_id]})
                      ELSE <<>>
             r1 == Called(r, "list firewallrules", net_id, ip, 0, ok)
         IN  IF rules = <<>>
             THEN S(c, [r1 EXCEPT !.k = r.k + 1])
             ELSE S(c, [r1 EXCEPT !.rules = rules, !.j = 1, !.pc = "t_ruledel"])

\* teardown() [4/8]: delete the j-th rule of the k-th address.
CallDeleteRule(c, r, ok) ==
    LET net_id == r.matching_networks[r.n]
        ip == r.ips[r.k].id
        r1 == Called(r, "delete firewallrule", net_id, ip, r.rules[r.j], ok)
        r2 == IF r.j = Len(r.rules)
              THEN [r1 EXCEPT !.pc = "t_rules", !.k = r.k + 1, !.rules = <<>>, !.j = 0]
              ELSE [r1 EXCEPT !.j = r.j + 1]
    IN  IF ok THEN S([c EXCEPT !.fw[net_id] = @ \ {<<ip, r.rules[r.j]>>}], r2)
        ELSE S(c, r2)

\* teardown() [5/8]: release the k-th address; its static NAT and its rules go
\* with it.
CallRelease(c, r, ok) ==
    IF r.k > Len(r.ips) THEN StageDone(c, r)
    ELSE LET net_id == r.matching_networks[r.n]
             ip == r.ips[r.k].id
             r1 == [Called(r, "disassociate ipaddress", net_id, ip, 0, ok) EXCEPT !.k = r.k + 1]
         IN  IF ok
             THEN S([c EXCEPT !.assoc[net_id] = @ \ {ip},
                              !.nat[net_id] = @ \ {ip},
                              !.fw[net_id] = {f \in @ : f[1] # ip}], r1)
             ELSE S(c, r1)

\* teardown() [6/8]: destroy the k-th VM (expunge); its static NAT is released
\* and its volume detached.
CallDestroy(c, r, ok) ==
    IF r.k > Len(r.vms) THEN StageDone(c, r)
    ELSE LET net_id == r.matching_networks[r.n]
             vm == r.vms[r.k]
             r1 == [Called(r, "destroy virtualmachine", net_id, vm, 0, ok) EXCEPT !.k = r.k + 1]
         IN  IF ok
             THEN S([c EXCEPT !.vm[net_id] = @ \ {vm},
                              !.nat[net_id] = @ \ {vm},
                              !.att[net_id] = @ \ {vm}], r1)
             ELSE S(c, r1)

\* teardown() [7/8]: delete the network, which the provider refuses while a
\* VM is in it; its addresses go with it.  Then the next matching network.
CallDeleteNetwork(c, r, ok) ==
    LET net_id == r.matching_networks[r.n]
        r1 == Called(r, "delete network", net_id, "", 0, ok)
        r2 == IF r.n < Len(r.matching_networks)
              THEN [r1 EXCEPT !.n = r.n + 1, !.pc = "t_vms",
                              !.vms = <<>>, !.volumes = <<>>, !.ips = <<>>, !.k = 0]
              ELSE [r1 EXCEPT !.pc = "t_keyfind"]
    IN  IF ok /\ c.vm[net_id] = {}
        THEN S([c EXCEPT !.net = @ \ {net_id},
                         !.assoc[net_id] = {}, !.nat[net_id] = {}, !.fw[net_id] = {}], r2)
        ELSE S(c, r2)

\* delete_keypair(): find_keypair() first; "Already deleted" when it finds
\* none or its list call failed.
CallFindKeypair(c, r, ok) ==
    LET r1 == Called(r, "list sshkeypairs", 0, "", 0, ok)
    IN  IF ok /\ c.key THEN S(c, [r1 EXCEPT !.pc = "t_keydel"]) ELSE S(c, Exit(r1, 0))

\* delete_keypair(): delete it; teardown() and main() return.
CallDeleteKeypair(c, r, ok) ==
    LET r1 == Exit(Called(r, "delete sshkeypair", 0, "", 0, ok), 0)
    IN  IF ok THEN S([c EXCEPT !.key = FALSE], r1) ELSE S(c, r1)

\* One call of the teardown script, by the place the process is at.
TeardownCall(c, r, ok) ==
    CASE r.pc = "t_zone"     -> resolve_zone(c, r, ok)
      [] r.pc = "t_networks" -> CallListNetworks(c, r, ok)
      [] r.pc = "t_vms"      -> CallListVms(c, r, ok)
      [] r.pc = "t_volumes"  -> CallListVolumes(c, r, ok)
      [] r.pc = "t_policies" -> CallListPolicies(c, r, ok)
      [] r.pc = "t_poldel"   -> CallDeletePolicy(c, r, ok)
      [] r.pc = "t_detach"   -> CallDetach(c, r, ok)
      [] r.pc = "t_voldel"   -> CallDeleteVolume(c, r, ok)
      [] r.pc = "t_ips"      -> CallListIps(c, r, ok)
      [] r.pc = "t_nat"      -> CallDisableNat(c, r, ok)
      [] r.pc = "t_rules"    -> CallListRules(c, r, ok)
      [] r.pc = "t_ruledel"  -> CallDeleteRule(c, r, ok)
      [] r.pc = "t_release"  -> CallRelease(c, r, ok)
      [] r.pc = "t_destroy"  -> CallDestroy(c, r, ok)
      [] r.pc = "t_netdel"   -> CallDeleteNetwork(c, r, ok)
      [] r.pc = "t_keyfind"  -> CallFindKeypair(c, r, ok)
      [] r.pc = "t_keydel"   -> CallDeleteKeypair(c, r, ok)

CallPcs ==
    {"t_zone", "t_networks", "t_vms", "t_volumes", "t_policies", "t_poldel",
     "t_detach", "t_voldel", "t_ips", "t_nat", "t_rules", "t_ruledel", "t_release",
     "t_destroy", "t_netdel", "t_keyfind", "t_keydel"}

InitCalls ==
    /\ cloud \in TdAccounts
    /\ run = TdIdle
    /\ prev = NoPrev
    /\ start = cloud
    /\ origin = NoOrigin
    /\ runs = 0

\* main() of the teardown script is called without --zone, with the name of a
\* zone of the provider, or with a name the provider does not list.
MainTeardown ==
    /\ run.pc = "idle"
    /\ \E zone \in {NoZone} \cup Nets \cup {UnknownZone} : run' = BeginCalls(zone)
    /\ UNCHANGED <<cloud, prev, start, origin, runs>>

\* The call the process is at answers.
CallAnswers ==
    /\ run.pc \in CallPcs
    /\ LET n == TeardownCall(cloud, run, TRUE) IN cloud' = n.c /\ run' = n.r
    /\ UNCHANGED <<prev, start, origin, runs>>

\* The call the process is at fails after its retries, MaxFail times a run at
\* most.
CallFails ==
    /\ run.pc \in CallPcs
    /\ run.fails < MaxFail
    /\ LET n == TeardownCall(cloud, run, FALSE) IN cloud' = n.c /\ run' = n.r
    /\ UNCHANGED <<prev, start, origin, runs>>

NextCalls == MainTeardown \/ CallAnswers \/ CallFails

SpecCalls == InitCalls /\ [][NextCalls]_vars

\* C22. Teardown is best-effort: whichever provider calls of a teardown fail
\* after their retries, the later steps are still attempted (the delete of
\* every matching network, the keypair deletion) and the process exits 0.
C22_BestEffort ==
    (run.pc = "t_exit" /\ run.zone # UnknownZone) =>
        LET Issued(verb, n) ==
                \E i \in 1..Len(run.calls) :
                    run.calls[i].verb = verb /\ run.calls[i].net = n
        IN  /\ run.exit = 0
            /\ \A n \in start.net :
                  (run.zone = NoZone \/ run.zone = n) => Issued("delete network", n)
            /\ Issued("list sshkeypairs", 0)

\* C23. Teardown order: for each matching network the destructive calls are
\* issued in the order snapshot-policy deletes, volume detach then delete,
\* static-NAT disables, firewall-rule deletes, address disassociates, VM
\* destroys, network delete; the keypair delete is issued at most once, after
\* the last network delete.
C23_TeardownOrder ==
    LET calls == run.calls
        Rank(verb) ==
            CASE verb = "delete snapshotpolicies" -> 1
              [] verb \in {"detach volume", "delete volume"} -> 2
              [] verb = "disable staticnat" -> 3
              [] verb = "delete firewallrule" -> 4
              [] verb = "disassociate ipaddress" -> 5
              [] verb = "destroy virtualmachine" -> 6
              [] verb = "delete network" -> 7
              [] OTHER -> 0
        W == {i \in 1..Len(calls) : Rank(calls[i].verb) > 0}
        K == {i \in 1..Len(calls) : calls[i].verb = "delete sshkeypair"}
    IN  /\ \A i, j \in W :
              (i < j /\ calls[i].net = calls[j].net) =>
                  Rank(calls[i].verb) <= Rank(calls[j].verb)
        /\ \A j \in W :
              calls[j].verb = "delete volume" =>
                  /\ j > 1
                  /\ calls[j - 1] = [calls[j] EXCEPT !.verb = "detach volume"]
        /\ Cardinality(K) <= 1
        /\ \A i \in K : \A j \in W : j < i

\* A teardown without a zone has gone through two networks, one of them with
\* web and db and tagged volumes, and has deleted the keypair.
C23_Witness ==
    /\ run.pc = "t_exit"
    /\ run.zone = NoZone
    /\ Len(run.matching_networks) = 2
    /\ \E n \in Nets : start.vm[n] = TdRoles
    /\ start.tag = TagTeardown
    /\ \E i \in 1..Len(run.calls) : run.calls[i].verb = "delete volume"
    /\ run.calls[Len(run.calls)].verb = "delete sshkeypair"

\* The order in which provision() creates the kinds of resource.
CreationOrder == <<"network", "keypair", "vm", "ip", "rule", "volume", "policy">>

\* The kind of resource a write call of teardown removes.
KindOf(verb) ==
    CASE verb = "delete snapshotpolicies" -> "policy"
      [] verb \in {"detach volume", "delete volume"} -> "volume"
      [] verb \in {"disable staticnat", "disassociate ipaddress"} -> "ip"
      [] verb = "delete firewallrule" -> "rule"
      [] verb = "destroy virtualmachine" -> "vm"
      [] verb = "delete network" -> "network"
      [] verb = "delete sshkeypair" -> "keypair"
      [] OTHER -> "none"

\* The place of a kind in CreationOrder.
Created(kind) == CHOOSE i \in 1..Len(CreationOrder) : CreationOrder[i] = kind

Lookups(cfg) ==
    <<"zone", "network offering", "disk offering", "web plan", "template">>
        \o (IF cfg.workers_enabled THEN <<"workers plan">> ELSE <<>>)
        \o (IF cfg.db_enabled THEN <<"db plan">> ELSE <<>>)

CatalogNames ==
    {"zone", "network offering", "disk offering", "web plan", "template",
     "workers plan", "db plan"}

\* A slip: the network is created before the names are resolved.
StepResolveLate(c, r, listed) ==
    LET c1 == [c EXCEPT !.net = TRUE]
        r1 == [r EXCEPT !.wrote = ~c.net]
    IN  IF \E i \in 1..Len(Lookups(r.cfg)) : Lookups(r.cfg)[i] \notin listed
        THEN Fatal(c1, r1, "not found")
        ELSE S(c1, [r1 EXCEPT !.pc = "net"])

\* provision(): "Resolving infrastructure names"; listed are the names the
\* provider's lists hold.  A resolve_* or discover_template that misses raises.
StepResolve(c, r, listed) ==
    IF \E i \in 1..Len(Lookups(r.cfg)) : Lookups(r.cfg)[i] \notin listed
    THEN Fatal(c, r, "not found")
    ELSE S(c, [r EXCEPT !.pc = "net"])

\* main() calls provision(cfg), which starts by resolving the names.
StartResolving(cfgs, limit) ==
    /\ Resting
    /\ runs < limit
    /\ runs' = runs + 1
    /\ \E cfg \in cfgs : run' = [BeginProvision(cfg) EXCEPT !.pc = "resolve"]
    /\ origin' = NoOrigin
    /\ prev' = IF run.pc = "done"
               THEN [ok |-> TRUE, cfg |-> run.cfg, results |-> run.results]
               ELSE NoPrev
    /\ start' = cloud
    /\ UNCHANGED cloud

\* The lookups, against a catalog that lacks one name at most.
ResolveNames ==
    /\ run.pc = "resolve"
    /\ \E listed \in {CatalogNames} \cup {CatalogNames \ {x} : x \in CatalogNames} :
          LET n == StepResolve(cloud, run, listed)
          IN  cloud' = n.c /\ run' = n.r
    /\ UNCHANGED <<prev, start, origin, runs>>

\* Provision runs that resolve the names first, whole or cut off.
NextResolve ==
    \/ StartResolving(ConfigsTopology, MaxRuns) \/ ResolveNames
    \/ ProvisionSteps \/ Interrupt

SpecResolve == Init /\ [][NextResolve]_vars

\* C26. Resolve before mutate: when a catalog name (zone, network offering,
\* disk offering, the service offering of an enabled role, the template) does
\* not resolve, provision ends with a fatal error and has issued no write call.
C26_ResolveBeforeMutate ==
    (run.pc = "failed" /\ run.err = "not found") =>
        /\ ~run.wrote
        /\ cloud = start

\* A provision with db enabled has ended on a name that did not resolve, on an
\* account that held the network and the web VM already.
C26_Witness ==
    /\ run.pc = "failed" /\ run.err = "not found"
    /\ run.cfg.db_enabled
    /\ start.net /\ Exists(start, WebName)

\* ------------------------------------------------------------------ provision: main

\* A slip: main() reports the error and ends normally.
ExitCodeZero(r) == 0

\* main(): exit code 1 on RuntimeError, 0 otherwise.
ExitCode(r) == IF r.pc = "failed" THEN 1 ELSE 0

\* main(): the JSON output is written when provision() returned.
Output(r) == IF r.pc = "done" THEN r.results ELSE <<>>

\* C27. Provision fails fast: once a provider call of provision has failed
\* after its retries with no fallback, or a shrink was asked for, the run
\* issues no further write call, writes no output and exits with code 1.
C27_FailFast ==
    [][run.pc = "failed" =>
          /\ cloud' = cloud
          /\ Output(run) = <<>>
          /\ ExitCode(run) = 1
          /\ run'.pc \in {"failed", "net"}]_vars

\* A provision has ended on a refused shrink after it had changed the account.
C27_Witness ==
    /\ run.pc = "failed"
    /\ run.err = "shrink"
    /\ cloud # start

\* ------------------------------------------------------------------ the public key

Keys == 1..MaxKeys

\* main() calls provision(cfg, ..., public_key) with the key it read.
StartKeyed(cfgs, limit) ==
    /\ Resting
    /\ runs < limit
    /\ runs' = runs + 1
    /\ \E cfg \in cfgs, key \in Keys :
          run' = [BeginProvision(cfg) EXCEPT !.public_key = key]
    /\ origin' = NoOrigin
    /\ prev' = IF run.pc = "done"
               THEN [ok |-> TRUE, cfg |-> run.cfg, results |-> run.results]
               ELSE NoPrev
    /\ start' = cloud
    /\ UNCHANGED cloud

\* Provision runs, whole or cut off, whose public key changes from run to run.
NextKeys == StartKeyed(ConfigsTopology, MaxRuns) \/ ProvisionSteps \/ Interrupt

SpecKeys == Init /\ [][NextKeys]_vars

\* C28. Keypair content: after a successful provision(spec, identity,
\* publicKey) the keypair <networkName>-key holds publicKey, also when a
\* keypair of that name existed before with another public key.
C28_KeypairContent ==
    run.pc = "done" => (cloud.key /\ cloud.pub = run.public_key)

\* ------------------------------------------------------------------ volume ownership

\* C29. Teardown's volume owner set matches provision's tagging: teardown
\* selects the data volumes by the tag provision writes, so every volume that
\* provision created and tagged is deleted by teardown, with its snapshot
\* policies.
C29_OwnerSetMatches ==
    run.pc = "td_done" =>
        \A v \in VolNames :
            (start.vol[v].ex /\ start.vol[v].tag = TagProvision) =>
                (~cloud.vol[v].ex /\ cloud.vol[v].pol = 0)

\* C30. The unassigned pool is really unassigned: every address on which
\* provision issues enable staticnat is at that moment an address of the
\* network without static NAT to any VM, whatever earlier successful
\* provisions left, also with db disabled after it was enabled and workers
\* added.
C30_PoolUnassigned ==
    run.pc = "nat" =>
        LET ip_obj == run.unassigned[run.k]
        IN  cloud.ip[ip_obj].assoc /\ cloud.ip[ip_obj].nat = NoId

\* ------------------------------------------------------------------ scale_vm, call by call

\* scale_vm(): the stop poll makes range(30) turns.
StopPolls == 30

\* The local variables of one scale_vm() call: the VM, the offering asked for,
\* the turns of the stop poll made, whether find_vm reported Stopped, and
\* whether the scale call after the poll was accepted.
ScaleIdle ==
    [pc |-> "idle", name |-> WebName, new_offering_id |-> 0,
     polls |-> 0, observed |-> FALSE, scaled |-> FALSE]

\* The accounts scale_vm() is called on: one VM, running, with a plan.
ScaleAccounts ==
    {[EmptyCloud EXCEPT !.net = TRUE, !.key = TRUE, !.pub = 1,
                        !.vm[name] = [gen |-> 1, st |-> "Running", off |-> off]] :
        name \in VMNames, off \in Plans}

\* deploy_vm() found the VM with another offering than the one asked for.
BeginScale(name, offering_id) ==
    [ScaleIdle EXCEPT !.pc = "s_live", !.name = name, !.new_offering_id = offering_id]

\* scale_vm(): the live scale; when cmk raises, the fallback begins.
ScaleLiveCall(c, r, ok) ==
    IF ok
    THEN S([c EXCEPT !.vm[r.name].off = r.new_offering_id], [r EXCEPT !.pc = "s_returned"])
    ELSE S(c, [r EXCEPT !.pc = "s_stop"])

\* scale_vm(): cmk stop virtualmachine; the VM is on its way down when the
\* call returns, and halts before the first turn of the poll or later.
ScaleStopCall(c, r, ok) ==
    IF ok
    THEN S([c EXCEPT !.vm[r.name].st = "Stopping"],
           [r EXCEPT !.pc = "s_poll", !.polls = 0])
    ELSE S(c, [r EXCEPT !.pc = "s_raised"])

\* A slip: the poll has no bound and goes on until find_vm reports Stopped.
ScalePollUnbounded(c, r, answered) ==
    LET vm == IF answered THEN find_vm(c, r.name) ELSE NoVm
    IN  IF vm.id # NoId /\ vm.state = "Stopped"
        THEN S(c, [r EXCEPT !.pc = "s_scale", !.observed = TRUE])
        ELSE S(c, [r EXCEPT !.polls = (r.polls + 1) % StopPolls])

\* scale_vm(): one turn of the stop poll.  find_vm answers or, its list call
\* having failed, reports nothing; the loop is left on Stopped or after its
\* last turn.
ScalePollTurn(c, r, answered) ==
    LET vm == IF answered THEN find_vm(c, r.name) ELSE NoVm
    IN  IF vm.id # NoId /\ vm.state = "Stopped"
        THEN S(c, [r EXCEPT !.pc = "s_scale", !.observed = TRUE])
        ELSE S(c, [r EXCEPT !.polls = r.polls + 1,
                            !.pc = IF r.polls + 1 < StopPolls THEN "s_poll" ELSE "s_scale"])

\* scale_vm(): the scale call after the poll.
ScaleOfflineCall(c, r, ok) ==
    IF ok
    THEN S([c EXCEPT !.vm[r.name].off = r.new_offering_id],
           [r EXCEPT !.pc = "s_start", !.scaled = TRUE])
    ELSE S(c, [r EXCEPT !.pc = "s_raised"])

\* scale_vm(): cmk start virtualmachine.
ScaleStartCall(c, r, ok) ==
    IF ok
    THEN S([c EXCEPT !.vm[r.name].st = "Running"], [r EXCEPT !.pc = "s_returned"])
    ELSE S(c, [r EXCEPT !.pc = "s_raised"])

InitScale ==
    /\ cloud \in ScaleAccounts
    /\ run = ScaleIdle
    /\ prev = NoPrev
    /\ start = cloud
    /\ origin = NoOrigin
    /\ runs = 0

\* deploy_vm() calls scale_vm() for the VM of the account, with another plan.
CallScaleVm ==
    /\ run.pc = "idle"
    /\ \E name \in VMNames, off \in Plans :
          /\ cloud.vm[name].st # "Absent"
          /\ cloud.vm[name].off # off
          /\ run' = BeginScale(name, off)
    /\ UNCHANGED <<cloud, prev, start, origin, runs>>

ScaleLive ==
    /\ run.pc = "s_live"
    /\ \E ok \in BOOLEAN :
          LET n == ScaleLiveCall(cloud, run, ok) IN cloud' = n.c /\ run' = n.r
    /\ UNCHANGED <<prev, start, origin, runs>>

ScaleStopVm ==
    /\ run.pc = "s_stop"
    /\ \E ok \in BOOLEAN :
          LET n == ScaleStopCall(cloud, run, ok) IN cloud' = n.c /\ run' = n.r
    /\ UNCHANGED <<prev, start, origin, runs>>

ScalePoll ==
    /\ run.pc = "s_poll"
    /\ \E answered \in BOOLEAN :
          LET n == ScalePollTurn(cloud, run, answered) IN cloud' = n.c /\ run' = n.r
    /\ UNCHANGED <<prev, start, origin, runs>>

\* The provider brings a stopping VM to a halt.
VmHalts ==
    /\ run.pc = "s_poll"
    /\ cloud.vm[run.name].st = "Stopping"
    /\ cloud' = [cloud EXCEPT !.vm[run.name].st = "Stopped"]
    /\ UNCHANGED <<run, prev, start, origin, runs>>

ScaleAfterPoll ==
    /\ run.pc = "s_scale"
    /\ \E ok \in BOOLEAN :
          LET n == ScaleOfflineCall(cloud, run, ok) IN cloud' = n.c /\ run' = n.r
    /\ UNCHANGED <<prev, start, origin, runs>>

ScaleStartVm ==
    /\ run.pc = "s_start"
    /\ \E ok \in BOOLEAN :
          LET n == ScaleStartCall(cloud, run, ok) IN cloud' = n.c /\ run' = n.r
    /\ UNCHANGED <<prev, start, origin, runs>>

NextScale ==
    \/ CallScaleVm \/ ScaleLive \/ ScaleStopVm \/ ScalePoll \/ VmHalts
    \/ ScaleAfterPoll \/ ScaleStartVm

SpecScale == InitScale /\ [][NextScale]_vars

\* C31. Offline scale happens only while stopped: in the fallback of scale_vm
\* the scale call after the poll is issued only when find_vm has reported the
\* VM Stopped, also when the poll has made all its turns, and the start call
\* is issued only after that scale call was accepted.
C31_ScaleOnlyWhileStopped ==
    /\ run.pc = "s_scale" => run.observed
    /\ run.pc = "s_start" => run.scaled

\* ------------------------------------------------------------------ removing excess workers

\* The worker VMs a step of the run destroys, and the addresses it releases.
Destroyed(c, d) == {name \in VMNames : c.vm[name].st # "Absent" /\ d.vm[name].st = "Absent"}
Released(c, d) == {i \in IPs : c.ip[i].assoc /\ ~d.ip[i].assoc}

DiskReturned(r, k) ==
    \/ r.pc \in {"snap", "finish", "done"}
    \/ r.pc \in {"disk", "disk_tag", "disk_attach"} /\ k < r.k

\* C33. Disk attachment: once create_disk has returned for a volume, the
\* volume exists and is attached to the VM of the run it belongs to, the blob
\* volume to the web VM and the dbdata volume to the db VM, whether the
\* volume was created, found detached or found attached.
C33_DiskAttached ==
    \A k \in 1..Len(Disks(run.cfg)) :
        DiskReturned(run, k) =>
            LET v == Disks(run.cfg)[k]
                name == IF v = BlobName THEN WebName ELSE DbName
                vm_id == run.results[IF v = BlobName THEN "web_vm_id" ELSE "db_vm_id"]
            IN  /\ cloud.vol[v].ex
                /\ cloud.vol[v].att = vm_id
                /\ vm_id = find_vm(cloud, name).id
                /\ vm_id # NoId

\* A provision has succeeded that found the blob volume detached and created
\* the dbdata volume, after a run that left both VMs behind.
C33_Witness ==
    /\ run.pc = "done"
    /\ run.cfg.db_enabled
    /\ start.vol[BlobName].ex
    /\ start.vol[BlobName].att = NoId
    /\ ~start.vol[DbDataName].ex
    /\ cloud.vol[DbDataName].att = run.results["db_vm_id"]

\* ------------------------------------------------------------------ snapshot policies

\* The data volumes a configuration owns: blob, and dbdata if the database is
\* enabled.
OwnedVolumes(cfg) == SeqToSet(Disks(cfg))

Zones == Nets

\* The account with the zones that hold a network of the project's name; the
\* VMs, addresses and volumes are those of the network the finders report.
ZonedEmpty == [nets |-> {}, c |-> EmptyCloud]

\* The run with the zone of its configuration and the zone of the network
\* whose id it uses as net_id.
ZonedIdle == [zone |-> NoZone, net_zone |-> NoZone, r |-> IdleRun]

\* find_network(): list networks without a zone filter; the first network of
\* the name, whatever its zone.
find_network_any_zone(nets) == IF nets = {} THEN NoZone ELSE Min(nets)

\* provision(): the network phase, with the zone the network is created in.
StepNetworkZoned(z, r) ==
    LET net_zone == find_network_any_zone(z.nets)
        found == net_zone # NoZone
        n == StepNetwork([z.c EXCEPT !.net = found], r.r)
    IN  S([nets |-> IF found THEN z.nets ELSE z.nets \cup {r.zone}, c |-> n.c],
          [r EXCEPT !.net_zone = IF found THEN net_zone ELSE r.zone, !.r = n.r])

\* deploy_vm() with zoneid and networkids: the provider refuses to deploy in
\* one zone a VM on a network of another.
StepDeployZoned(z, r, live) ==
    LET name == Sought(r.r)
        n == IF find_vm(z.c, name).id = NoId /\ r.net_zone # r.zone
             THEN Fatal(z.c, r.r, "provider")
             ELSE ProvisionStep(z.c, r.r, live)
    IN  S([z EXCEPT !.c = n.c], [r EXCEPT !.r = n.r])

\* Every other step of provision() goes by ids and names, not by zone.
StepZoned(z, r) ==
    LET n == ProvisionStep(z.c, r.r, TRUE)
    IN  S([z EXCEPT !.c = n.c], [r EXCEPT !.r = n.r])

InitZones ==
    /\ cloud = ZonedEmpty
    /\ run = ZonedIdle
    /\ prev = NoPrev
    /\ start = ZonedEmpty
    /\ origin = NoOrigin
    /\ runs = 0

\* main() calls provision(cfg) with a zone in the configuration.
StartZoned ==
    /\ run.r.pc \in {"idle", "done", "failed"}
    /\ runs < MaxRuns
    /\ runs' = runs + 1
    /\ \E cfg \in ConfigsTopology, zone \in Zones :
          run' = [zone |-> zone, net_zone |-> NoZone, r |-> BeginProvision(cfg)]
    /\ start' = cloud
    /\ UNCHANGED <<cloud, prev, origin>>

ZonedNetwork ==
    /\ run.r.pc = "net"
    /\ LET n == StepNetworkZoned(cloud, run) IN cloud' = n.c /\ run' = n.r
    /\ UNCHANGED <<prev, start, origin, runs>>

ZonedDeploy ==
    /\ run.r.pc \in {"vm_web", "vm_worker", "vm_db"}
    /\ LET n == StepDeployZoned(cloud, run, TRUE) IN cloud' = n.c /\ run' = n.r
    /\ UNCHANGED <<prev, start, origin, runs>>

ZonedStep ==
    /\ run.r.pc \in ProvisionPcs \ {"net", "vm_web", "vm_worker", "vm_db"}
    /\ LET n == StepZoned(cloud, run) IN cloud' = n.c /\ run' = n.r
    /\ UNCHANGED <<prev, start, origin, runs>>

NextZones == StartZoned \/ ZonedNetwork \/ ZonedDeploy \/ ZonedStep

SpecZones == InitZones /\ [][NextZones]_vars

\* C35. Network is per (name, zone): when a provision run has succeeded, a
\* network of the project's name exists in the zone of the configuration and
\* it is the network whose id the run used, also when a network of that name
\* exists in another zone.
C35_NetworkPerZone ==
    run.r.pc = "done" => (run.zone \in cloud.nets /\ run.net_zone = run.zone)

\* ------------------------------------------------------------------ the cmk helpers: launch and parse

\* subprocess.run(cmd) can also fail to launch cmk (OSError, no return code:
\* rc -1 stands for it), and an exit 0 can come with a stdout that is not JSON.
OutcomesAll ==
    Outcomes \cup {[rc |-> -1, msg |-> "OSError"], [rc |-> 0, msg |-> "not json"]}

\* cmk(): one turn of the loop with any of these outcomes.  OSError is raised
\* by subprocess.run, JSONDecodeError by json.loads; the loop catches neither,
\* and neither is the RuntimeError that cmk_quiet catches.
CmkRunAny(r, o) ==
    IF o.rc = -1
    THEN [r EXCEPT !.exits = Append(@, o), !.pc = "cmk_end", !.out = <<"OSError", o.msg>>]
    ELSE IF o.rc = 0 /\ o.msg = "not json"
    THEN [r EXCEPT !.exits = Append(@, o), !.pc = "cmk_end",
                   !.out = <<"JSONDecodeError", o.msg>>]
    ELSE CmkRun(r, o)

InvokeCmkAny ==
    /\ run.pc = "cmk_run"
    /\ \E o \in OutcomesAll : run' = CmkRunAny(run, o)
    /\ UNCHANGED <<cloud, prev, start, origin, runs>>

\* Calls of the cmk helpers, one after the other, every attempt ending any
\* way it can, a failed launch and an unparsable answer included.
NextAdapter == CallCmk \/ InvokeCmkAny \/ SleepCmk

SpecAdapter == Init /\ [][NextAdapter]_vars

\* C36. Adapter failure semantics: a failure to launch cmk counts as a failed
\* attempt, so that a call does not end on it before its last attempt and
\* sleeps the backoff of that attempt after it; an exit 0 with malformed JSON
\* ends the call at once with an error, for all three helpers.
C36_AdapterFailures ==
    run.pc \in {"cmk_run", "cmk_sleep", "cmk_end"} =>
        \A i \in 1..Len(run.exits) :
            /\ (run.exits[i].rc = -1 /\ i <= CMK_MAX_RETRIES) =>
                  /\ ~(run.pc = "cmk_end" /\ i = Len(run.exits))
                  /\ (Len(run.sleeps) >= i => run.sleeps[i] = Backoff(i - 1))
            /\ (run.exits[i].rc = 0 /\ run.exits[i].msg = "not json") =>
                  /\ i = Len(run.exits)
                  /\ run.pc = "cmk_end"
                  /\ run.out[1] \notin {"result", "None", "pending"}

\* ------------------------------------------------------------------ configurations that are not validated

\* provision() takes the configuration as main() loaded it: workers_enabled
\* with workers_replicas = 0 is one it can be handed.
ConfigsZeroReplicas ==
    {Config(TRUE, 0, de, 1, 1, 1, 1, 1) : de \in BOOLEAN}

\* Whole provision runs over the topologies and the configurations with
\* workers enabled and no replica.
NextUnvalidated ==
    \/ (run.pc # "failed" /\ StartProvision(ConfigsTopology \cup ConfigsZeroReplicas, MaxRuns))
    \/ ProvisionSteps

SpecUnvalidated == Init /\ [][NextUnvalidated]_vars

\* C37. Spec validation: a provision run whose configuration has
\* workers_enabled with workers_replicas = 0 ends with a fatal error and
\* issues no write call: past its start the run has failed and the account
\* is as it was.
C37_ZeroReplicasRejected ==
    (run.cfg.workers_enabled /\ run.cfg.workers_replicas = 0 /\ run.pc # "net") =>
        (run.pc = "failed" /\ ~run.wrote /\ cloud = start)

\* ------------------------------------------------------------------ the frame of provision

\* The ids of the VMs the configuration asks for, as the account has them.
DesiredIds(c, cfg) == {find_vm(c, name).id : name \in DesiredVMs(cfg)} \ {NoId}

\* A step takes something away from address i: its static NAT, a firewall
\* rule, or its association with the network.
Stripped(c, d, i) ==
    \/ c.ip[i].nat # NoId /\ d.ip[i].nat # c.ip[i].nat
    \/ ~(c.ip[i].fw \subseteq d.ip[i].fw)
    \/ c.ip[i].assoc /\ ~d.ip[i].assoc

\* C38. Frame of provision: a step of a provision run destroys only workers
\* with an index above the desired count and takes static NAT, firewall rules
\* and association only from an address that is not NATed to a desired VM
\* (the address found NATed to the worker being removed); it never removes or
\* detaches a data volume, removes a snapshot policy, the network or the
\* keypair.
C38_ProvisionFrame ==
    [][run.pc \in ProvisionPcs =>
        /\ \A name \in Destroyed(cloud, cloud') :
              name[1] = "worker" /\ name[2] > DesiredWorkers(run.cfg)
        /\ \A i \in IPs :
              Stripped(cloud, cloud', i) =>
                 /\ cloud.ip[i].nat \notin DesiredIds(cloud, run.cfg)
                 /\ \/ NameOf(cloud.ip[i].nat) = WorkerName(run.k)
                    \/ i = run.rmip
        /\ \A v \in VolNames :
              /\ cloud.vol[v].ex => cloud'.vol[v].ex
              /\ cloud.vol[v].att # NoId => cloud'.vol[v].att = cloud.vol[v].att
              /\ cloud'.vol[v].pol >= cloud.vol[v].pol
        /\ cloud.net => cloud'.net
        /\ cloud.key => cloud'.key
    ]_vars

\* A provision for one worker and no database has succeeded on an account
\* that held web, two workers and db, each with its address: worker-2 and its
\* address are gone, and web, worker-1, db, their addresses and rules and
\* the volumes are as they were.
C38_Witness ==
    /\ run.pc = "done"
    /\ DesiredWorkers(run.cfg) = 1
    /\ ~run.cfg.db_enabled
    /\ \A name \in {WebName, WorkerName(1), WorkerName(2), DbName} :
          /\ start.vm[name].st = "Running"
          /\ \E i \in IPs : start.ip[i].nat = VmId(name, start.vm[name].gen)
    /\ cloud.vm[WorkerName(2)].st = "Absent"
    /\ \A name \in {WebName, WorkerName(1), DbName} : cloud.vm[name] = start.vm[name]
    /\ \A i \in IPs :
          start.ip[i].nat # VmId(WorkerName(2), start.vm[WorkerName(2)].gen)
             => cloud.ip[i] = start.ip[i]
    /\ cloud.vol = start.vol
    /\ start.vol[DbDataName].att # NoId

\* ------------------------------------------------------------------ termination

\* The accounts the runs begin on: the empty one, and those a provision cut
\* off after it deployed web leaves behind (on these deploy_vm may call
\* scale_vm).
InitTermination ==
    /\ cloud \in {EmptyCloud} \cup {a \in ScaleAccounts : a.vm[WebName].st = "Running"}
    /\ run = IdleRun
    /\ prev = NoPrev
    /\ start = cloud
    /\ origin = NoOrigin
    /\ runs = 0

\* Runs of the two scripts, calls of scale_vm and calls of the cmk helpers.
\* A run ends early when a call raises (Interrupt); the provider may or may
\* not bring a stopping VM to a halt.
NextTermination ==
    \/ StartProvision(ConfigsTopology, MaxRuns - 1) \/ ProvisionSteps \/ ScaleSteps
    \/ Interrupt
    \/ StartTeardown(MaxRuns - 1) \/ TeardownSteps \/ InterruptTeardown
    \/ CallScaleVm \/ ScaleLive \/ ScaleStopVm \/ ScalePoll \/ VmHalts
    \/ ScaleAfterPoll \/ ScaleStartVm
    \/ CallCmk \/ InvokeCmkAny \/ SleepCmk

\* The process goes on to its next statement, and every cmk process it has
\* started returns.
ProcessRuns ==
    /\ WF_vars(ProvisionSteps) /\ WF_vars(ScaleSteps) /\ WF_vars(TeardownSteps)
    /\ WF_vars(ScaleLive) /\ WF_vars(ScaleStopVm) /\ WF_vars(ScalePoll)
    /\ WF_vars(ScaleAfterPoll) /\ WF_vars(ScaleStartVm)
    /\ WF_vars(InvokeCmkAny) /\ WF_vars(SleepCmk)

SpecTermination == InitTermination /\ [][NextTermination]_vars /\ ProcessRuns

ScalePcs == {"s_live", "s_stop", "s_poll", "s_scale", "s_start"}

\* C39. Termination: every provision run and every teardown run ends, with
\* success or with a fatal error; every call of a cmk helper ends, after 6
\* attempts at most; every call of scale_vm ends, after 30 turns of the stop
\* poll at most.
C39_Termination ==
    /\ (run.pc \in ProvisionPcs) ~> (run.pc \in {"done", "failed"})
    /\ (run.pc \in TeardownPcs) ~> (run.pc \in {"td_done", "failed"})
    /\ (run.pc \in {"cmk_run", "cmk_sleep"}) ~> (run.pc = "cmk_end")
    /\ (run.pc \in ScalePcs) ~> (run.pc \in {"s_returned", "s_raised"})
    /\ [](run.pc \in {"cmk_run", "cmk_sleep", "cmk_end"}
            => Len(run.exits) <= CMK_MAX_RETRIES + 1)
    /\ [](run.pc \in ScalePcs => run.polls <= StopPolls)

\* A provision has ended after its excess-worker loop removed worker-1 and
\* worker-2 and stopped at worker-3, of which there is none.
C39_Witness ==
    /\ run.pc = "done"
    /\ DesiredWorkers(run.cfg) = 0
    /\ start.vm[WorkerName(1)].st = "Running"
    /\ start.vm[WorkerName(2)].st = "Running"
    /\ cloud.vm[WorkerName(1)].st = "Absent"
    /\ cloud.vm[WorkerName(2)].st = "Absent"
    /\ cloud.vm[WorkerName(3)].st = "Absent"

====
